---- MODULE Spec2Model ----
(***************************************************************************)
(* Model of the urban-parameter rule engine of aeco-backend                *)
(* (ParametrosUrbanisticosService, LC 108/2009 as amended by LC 415/2023). *)
(*                                                                         *)
(* Strings that the code normalises (zona, tipologia, natureza,            *)
(* zona_atravessada) are sequences of one-character strings, so that       *)
(* strip/upper/lower/capitalize/startswith are computed, not assumed.      *)
(* Strings that the code only compares or prints (avenida, messages) are   *)
(* plain strings.  An Optional[T] is a sequence: <<>> is None and <<v>> is *)
(* the value v.  Lengths are in hundredths of a metre, heights supplied by *)
(* the caller in tenths of a metre.  In messages the warning sign is       *)
(* written without its variation selector and the information sign as (i). *)
(***************************************************************************)
EXTENDS Integers, Sequences, FiniteSets, TLC

VARIABLES pc, op, args, parametro, parametros, excecao, resposta,
          validacao_zone_service, parametros_service, chamadas,
          terrenos, param_urb_terrenos, projetos, retorno, criadores

vars ==
  << pc, op, args, parametro, parametros, excecao, resposta,
     validacao_zone_service, parametros_service, chamadas,
     terrenos, param_urb_terrenos, projetos, retorno, criadores >>

(* The state of the repositories: the three MongoDB collections, what the  *)
(* last repository call returned, and the requests creating projects.      *)
varsRepositorios ==
  <<terrenos, param_urb_terrenos, projetos, retorno, criadores>>

---------------------------------------------------------------------------
(* Bounds of the checked input space.                                      *)

MaxPavimentos == 5

AlturaPasso == 37

MaxAlturaPassos == 7

---------------------------------------------------------------------------
(* Optional values.                                                        *)

None == <<>>

Some(v) == <<v>>

(* Python truthiness of an Optional[str]: None and "" are both falsy.      *)
Truthy(o) == o /= None /\ o[1] /= <<>>

TruthyStr(o) == o /= None /\ o[1] /= ""

---------------------------------------------------------------------------
(* str methods, on sequences of characters.                                *)

Minusculas ==
  << "a", "b", "c", "d", "e", "f", "g", "h", "i", "j", "k", "l", "m",
     "n", "o", "p", "q", "r", "s", "t", "u", "v", "w", "x", "y", "z",
     "ã", "í", "ç" >>

Maiusculas ==
  << "A", "B", "C", "D", "E", "F", "G", "H", "I", "J", "K", "L", "M",
     "N", "O", "P", "Q", "R", "S", "T", "U", "V", "W", "X", "Y", "Z",
     "Ã", "Í", "Ç" >>

Whitespace == {" ", "\t", "\n"}

UpperChar(c) ==
  IF \E i \in DOMAIN Minusculas : Minusculas[i] = c
  THEN Maiusculas[CHOOSE i \in DOMAIN Minusculas : Minusculas[i] = c]
  ELSE c

LowerChar(c) ==
  IF \E i \in DOMAIN Maiusculas : Maiusculas[i] = c
  THEN Minusculas[CHOOSE i \in DOMAIN Maiusculas : Maiusculas[i] = c]
  ELSE c

Upper(s) == [i \in DOMAIN s |-> UpperChar(s[i])]

Lower(s) == [i \in DOMAIN s |-> LowerChar(s[i])]

Capitalize(s) ==
  [i \in DOMAIN s |-> IF i = 1 THEN UpperChar(s[i]) ELSE LowerChar(s[i])]

RECURSIVE LStrip(_)
LStrip(s) ==
  IF s /= <<>> /\ Head(s) \in Whitespace THEN LStrip(Tail(s)) ELSE s

RECURSIVE RStrip(_)
RStrip(s) ==
  IF s /= <<>> /\ s[Len(s)] \in Whitespace
  THEN RStrip(SubSeq(s, 1, Len(s) - 1))
  ELSE s

Strip(s) == RStrip(LStrip(s))

StartsWith(s, prefix) ==
  Len(s) >= Len(prefix) /\ SubSeq(s, 1, Len(prefix)) = prefix

(* The text of a character sequence, as used inside an f-string.           *)
RECURSIVE Str(_)
Str(s) == IF s = <<>> THEN "" ELSE Head(s) \o Str(Tail(s))

---------------------------------------------------------------------------
(* Number formatting of f-strings.  c is a length in hundredths.           *)

Digito(d) == ToString(d)

(* f"{x:.2f}" for x = c / 100, c >= 0.                                     *)
Fmt2f(c) ==
  ToString(c \div 100) \o "." \o Digito((c % 100) \div 10) \o Digito(c % 10)

(* f"{x:.1f}" for x = c / 100, c >= 0 a multiple of ten hundredths.        *)
Fmt1f(c) == ToString(c \div 100) \o "." \o Digito((c % 100) \div 10)

---------------------------------------------------------------------------
(* Values of ParametroCalculado.valor (typed Any in the code): absent, a   *)
(* float (hundredths), an int, or a string.                                *)

VNone == [tipo |-> "None", num |-> 0, txt |-> ""]

VFloat(c) == [tipo |-> "float", num |-> c, txt |-> ""]

VInt(n) == [tipo |-> "int", num |-> n, txt |-> ""]

VStr(s) == [tipo |-> "str", num |-> 0, txt |-> s]

ParametroCalculado(nome, valor, unidade, regra, deps, erro) ==
  [nome |-> nome, valor |-> valor, unidade |-> unidade,
   regra_aplicada |-> regra, dependencias |-> deps, erro |-> erro]

---------------------------------------------------------------------------
(* Zone codes and the words the evaluators compare against.                *)

ZC1 == <<"Z", "C", "1">>

ZC2 == <<"Z", "C", "2">>

ZAD1 == <<"Z", "A", "D", "1">>

ZAD2 == <<"Z", "A", "D", "2">>

ZH1 == <<"Z", "H", "1">>

ZH2 == <<"Z", "H", "2">>

ZH3 == <<"Z", "H", "3">>

ZHL == <<"Z", "H", "L">>

ZEIS == <<"Z", "E", "I", "S">>

ZI1 == <<"Z", "I", "1">>

ZI2 == <<"Z", "I", "2">>

ZII == <<"Z", "I", "I">>

ZIA1 == <<"Z", "I", "A", "1">>

ZIA2 == <<"Z", "I", "A", "2">>

ZCT1 == <<"Z", "C", "T", "1">>

ZCT2 == <<"Z", "C", "T", "2">>

ZCT3 == <<"Z", "C", "T", "3">>

ZCT4 == <<"Z", "C", "T", "4">>

ZCT == <<"Z", "C", "T">>

Residencial == <<"R", "e", "s", "i", "d", "e", "n", "c", "i", "a", "l">>

Comercial == <<"C", "o", "m", "e", "r", "c", "i", "a", "l">>

desmembramento ==
  <<"d", "e", "s", "m", "e", "m", "b", "r", "a", "m", "e", "n", "t", "o">>

loteamento_e_condominio ==
  << "l", "o", "t", "e", "a", "m", "e", "n", "t", "o", " ", "e", " ",
     "c", "o", "n", "d", "o", "m", "i", "n", "i", "o" >>

nao_se_aplica ==
  <<"n", "ã", "o", " ", "s", "e", " ", "a", "p", "l", "i", "c", "a">>

---------------------------------------------------------------------------
(* _calcular_recuo_frontal.  The except branch of each evaluator is not    *)
(* modelled as an outcome: with arguments of the declared types no         *)
(* statement of its try block raises.                                      *)

zonas_padrao == {ZC1, ZC2, ZAD1, ZAD2, ZH2, ZH3, ZCT1, ZCT2, ZCT3}

ErroUsoNaoReconhecido(zona, tipologia) ==
  "⚠ Uso " \o Str(tipologia) \o " não reconhecido para zona " \o Str(zona)

ErroZonaNaoEncontrada(zona) == "⚠ Zona " \o Str(zona) \o " não encontrada"

RecuoFrontalPorUso(zona, tipologia, residencial, comercial) ==
  IF tipologia = Residencial
  THEN ParametroCalculado("recuo_frontal", VFloat(residencial), "metros",
         "Zona " \o Str(zona) \o " - Uso Residencial",
         <<"zona", "tipologia">>, None)
  ELSE IF tipologia = Comercial
  THEN ParametroCalculado("recuo_frontal", VFloat(comercial), "metros",
         "Zona " \o Str(zona) \o " - Uso Comercial",
         <<"zona", "tipologia">>, None)
  ELSE ParametroCalculado("recuo_frontal", VNone, "metros",
         "Zona " \o Str(zona) \o " - Uso " \o Str(tipologia),
         <<"zona", "tipologia">>,
         Some(ErroUsoNaoReconhecido(zona, tipologia)))

(* Variant: the use is trimmed but its case is left as typed.              *)
_calcular_recuo_frontal_SemNormalizarUso(zona_in, tipologia_in) ==
  LET zona == Upper(Strip(zona_in))
      tipologia == Strip(tipologia_in)
  IN IF zona \in zonas_padrao
     THEN RecuoFrontalPorUso(zona, tipologia, 400, 150)
     ELSE IF zona = ZEIS
     THEN RecuoFrontalPorUso(zona, tipologia, 200, 150)
     ELSE ParametroCalculado("recuo_frontal", VNone, "metros",
            "Zona " \o Str(zona), <<"zona">>,
            Some(ErroZonaNaoEncontrada(zona)))

(* Variant: a zone of no schedule falls back to the standard schedule.     *)
_calcular_recuo_frontal_ZonaDesconhecidaPadrao(zona_in, tipologia_in) ==
  LET zona == Upper(Strip(zona_in))
      tipologia == Capitalize(Strip(tipologia_in))
  IN IF zona = ZEIS
     THEN RecuoFrontalPorUso(zona, tipologia, 200, 150)
     ELSE RecuoFrontalPorUso(zona, tipologia, 400, 150)

_calcular_recuo_frontal(zona_in, tipologia_in) ==
  LET zona == Upper(Strip(zona_in))
      tipologia == Capitalize(Strip(tipologia_in))
  IN IF zona \in zonas_padrao
     THEN RecuoFrontalPorUso(zona, tipologia, 400, 150)
     ELSE IF zona = ZEIS
     THEN RecuoFrontalPorUso(zona, tipologia, 200, 150)
     ELSE ParametroCalculado("recuo_frontal", VNone, "metros",
            "Zona " \o Str(zona), <<"zona">>,
            Some(ErroZonaNaoEncontrada(zona)))

---------------------------------------------------------------------------
(* _calcular_recuo_lateral.  pavimentos is an Optional[int]; altura_total  *)
(* an Optional[float] held in hundredths of a metre.                       *)

ErroDadosInsuficientes ==
  "⚠ Dados insuficientes para cálculo (pavimentos e altura total necessários)"

ErroZonaNaoCadastrada(zona) ==
  "⚠ Zona " \o Str(zona) \o " não cadastrada em nenhuma regra"

Max(a, b) == IF a >= b THEN a ELSE b

(* Variant: the crossed zone is never substituted.                         *)
RecuoLateralZonaRef_SemHeranca(zona, zona_atravessada) == zona

(* zona_ref: a transition zone (ZCT...) with a truthy zona_atravessada     *)
(* looks the group up under the crossed zone.                              *)
RecuoLateralZonaRef(zona, zona_atravessada) ==
  IF StartsWith(zona, ZCT) /\ Truthy(zona_atravessada)
  THEN Upper(Strip(zona_atravessada[1]))
  ELSE zona

(* min_recuo of the group of zona_ref, None when it is in neither group.   *)
RecuoLateralMinimo(zona_ref) ==
  LET grupo_min_15 == {ZC1, ZC2, ZAD1, ZAD2, ZH1, ZH2, ZH3, ZHL, ZEIS}
      grupo_min_20 == {ZI1, ZI2}
  IN IF zona_ref \in grupo_min_15 THEN Some(150)
     ELSE IF zona_ref \in grupo_min_20 THEN Some(200)
     ELSE None

(* "Aplicação da regra": the value string.                                 *)
RecuoLateralValor(pavimentos, altura_total, min_recuo) ==
  IF pavimentos <= 2
  THEN "0 m (exceto se houver aberturas → mínimo " \o Fmt1f(min_recuo)
         \o " m)"
  ELSE Fmt2f(Max(altura_total \div 10, min_recuo)) \o " m"

RecuoLateralRegra(zona, pavimentos, altura_total) ==
  IF pavimentos <= 2
  THEN "Zona " \o Str(zona) \o " - Até 2 pavimentos"
  ELSE "Zona " \o Str(zona) \o " - " \o ToString(pavimentos)
         \o " pavimentos, altura " \o Fmt1f(altura_total) \o "m"

(* Variant: the group lookup comes before the check of the missing data.   *)
_calcular_recuo_lateral_ZonaPrimeiro(zona_in, pavimentos, altura_total, zona_atravessada) ==
  LET zona == Upper(Strip(zona_in))
      zona_ref == RecuoLateralZonaRef(zona, zona_atravessada)
  IN IF RecuoLateralMinimo(zona_ref) = None
     THEN ParametroCalculado("recuo_lateral", VNone, "metros",
            "Zona " \o Str(zona), <<"zona">>,
            Some(ErroZonaNaoCadastrada(zona)))
     ELSE IF pavimentos = None \/ altura_total = None
     THEN ParametroCalculado("recuo_lateral", VNone, "metros",
            "Zona " \o Str(zona),
            <<"zona", "pavimentos", "altura_total">>,
            Some(ErroDadosInsuficientes))
     ELSE ParametroCalculado("recuo_lateral",
            VStr(RecuoLateralValor(pavimentos[1], altura_total[1],
                                   RecuoLateralMinimo(zona_ref)[1])),
            "metros",
            RecuoLateralRegra(zona, pavimentos[1], altura_total[1]),
            <<"zona", "pavimentos", "altura_total">>, None)

_calcular_recuo_lateral(zona_in, pavimentos, altura_total, zona_atravessada) ==
  LET zona == Upper(Strip(zona_in))
      zona_ref == RecuoLateralZonaRef(zona, zona_atravessada)
  IN IF pavimentos = None \/ altura_total = None
     THEN ParametroCalculado("recuo_lateral", VNone, "metros",
            "Zona " \o Str(zona),
            <<"zona", "pavimentos", "altura_total">>,
            Some(ErroDadosInsuficientes))
     ELSE IF RecuoLateralMinimo(zona_ref) = None
     THEN ParametroCalculado("recuo_lateral", VNone, "metros",
            "Zona " \o Str(zona), <<"zona">>,
            Some(ErroZonaNaoCadastrada(zona)))
     ELSE ParametroCalculado("recuo_lateral",
            VStr(RecuoLateralValor(pavimentos[1], altura_total[1],
                                   RecuoLateralMinimo(zona_ref)[1])),
            "metros",
            RecuoLateralRegra(zona, pavimentos[1], altura_total[1]),
            <<"zona", "pavimentos", "altura_total">>, None)

---------------------------------------------------------------------------
(* _calcular_recuo_fundos: a second copy of the same code.                 *)

RecuoFundosZonaRef(zona, zona_atravessada) ==
  IF StartsWith(zona, ZCT) /\ Truthy(zona_atravessada)
  THEN Upper(Strip(zona_atravessada[1]))
  ELSE zona

(* Variant: ZHL is missing from the 1.5 m group.                            *)
RecuoFundosMinimo_SemZHL(zona_ref) ==
  LET grupo_min_15 == {ZC1, ZC2, ZAD1, ZAD2, ZH1, ZH2, ZH3, ZEIS}
      grupo_min_20 == {ZI1, ZI2}
  IN IF zona_ref \in grupo_min_15 THEN Some(150)
     ELSE IF zona_ref \in grupo_min_20 THEN Some(200)
     ELSE None

RecuoFundosMinimo(zona_ref) ==
  LET grupo_min_15 == {ZC1, ZC2, ZAD1, ZAD2, ZH1, ZH2, ZH3, ZHL, ZEIS}
      grupo_min_20 == {ZI1, ZI2}
  IN IF zona_ref \in grupo_min_15 THEN Some(150)
     ELSE IF zona_ref \in grupo_min_20 THEN Some(200)
     ELSE None

(* Variant: the group minimum is not applied above two floors.             *)
RecuoFundosValor_SemMinimo(pavimentos, altura_total, min_recuo) ==
  IF pavimentos <= 2
  THEN "0 m (exceto se houver aberturas → mínimo " \o Fmt1f(min_recuo)
         \o " m)"
  ELSE Fmt2f(altura_total \div 10) \o " m"

RecuoFundosValor(pavimentos, altura_total, min_recuo) ==
  IF pavimentos <= 2
  THEN "0 m (exceto se houver aberturas → mínimo " \o Fmt1f(min_recuo)
         \o " m)"
  ELSE Fmt2f(Max(altura_total \div 10, min_recuo)) \o " m"

RecuoFundosRegra(zona, pavimentos, altura_total) ==
  IF pavimentos <= 2
  THEN "Zona " \o Str(zona) \o " - Até 2 pavimentos"
  ELSE "Zona " \o Str(zona) \o " - " \o ToString(pavimentos)
         \o " pavimentos, altura " \o Fmt1f(altura_total) \o "m"

_calcular_recuo_fundos(zona_in, pavimentos, altura_total, zona_atravessada) ==
  LET zona == Upper(Strip(zona_in))
      zona_ref == RecuoFundosZonaRef(zona, zona_atravessada)
  IN IF pavimentos = None \/ altura_total = None
     THEN ParametroCalculado("recuo_fundos", VNone, "metros",
            "Zona " \o Str(zona),
            <<"zona", "pavimentos", "altura_total">>,
            Some(ErroDadosInsuficientes))
     ELSE IF RecuoFundosMinimo(zona_ref) = None
     THEN ParametroCalculado("recuo_fundos", VNone, "metros",
            "Zona " \o Str(zona), <<"zona">>,
            Some(ErroZonaNaoCadastrada(zona)))
     ELSE ParametroCalculado("recuo_fundos",
            VStr(RecuoFundosValor(pavimentos[1], altura_total[1],
                                  RecuoFundosMinimo(zona_ref)[1])),
            "metros",
            RecuoFundosRegra(zona, pavimentos[1], altura_total[1]),
            <<"zona", "pavimentos", "altura_total">>, None)

---------------------------------------------------------------------------
(* _calcular_testada_minima                                                *)

(* Variant: ZH3 is given the allotment frontage of the other zones.        *)
regras_ZH3ComoAsDemais(zona, natureza) ==
  CASE zona \in {ZAD1, ZAD2, ZH2, ZH3, ZCT2, ZCT3, ZCT4}
         /\ natureza = desmembramento -> Some(1000)
    [] zona \in {ZAD1, ZAD2, ZH2, ZH3, ZCT2, ZCT3, ZCT4}
         /\ natureza = loteamento_e_condominio -> Some(1500)
    [] OTHER -> None

(* The frontage table: (zona, natureza) -> hundredths of a metre, or None  *)
(* where the dict has no entry (regras.get returns None).                  *)
regras(zona, natureza) ==
  CASE zona \in {ZAD1, ZAD2, ZH2, ZH3, ZCT2, ZCT3, ZCT4}
         /\ natureza = desmembramento -> Some(1000)
    [] zona \in {ZAD1, ZAD2, ZH2, ZCT2, ZCT3, ZCT4}
         /\ natureza = loteamento_e_condominio -> Some(1500)
    [] zona = ZH3 /\ natureza = loteamento_e_condominio -> Some(1200)
    [] OTHER -> None

ErroNaturezaNecessaria ==
  "⚠ Natureza do empreendimento necessária para cálculo"

ErroCombinacaoNaoEncontrada(zona, natureza) ==
  "⚠ Combinação zona " \o Str(zona) \o " + natureza " \o Str(natureza)
    \o " não encontrada"

(* Variant: the nature is trimmed but not lower-cased.                     *)
_calcular_testada_minima_SemMinusculas(zona_in, natureza_in) ==
  LET zona == Upper(Strip(zona_in))
      natureza == IF Truthy(natureza_in)
                  THEN Some(Strip(natureza_in[1]))
                  ELSE None
  IN IF natureza = Some(nao_se_aplica)
     THEN ParametroCalculado("testada_minima", VNone, "metros",
            "Zona " \o Str(zona) \o " - Não se aplica",
            <<"zona", "natureza">>, None)
     ELSE IF ~Truthy(natureza)
     THEN ParametroCalculado("testada_minima", VNone, "metros",
            "Zona " \o Str(zona), <<"zona", "natureza">>,
            Some(ErroNaturezaNecessaria))
     ELSE IF regras(zona, natureza[1]) = None
     THEN ParametroCalculado("testada_minima", VNone, "metros",
            "Zona " \o Str(zona) \o " - Natureza " \o Str(natureza[1]),
            <<"zona", "natureza">>,
            Some(ErroCombinacaoNaoEncontrada(zona, natureza[1])))
     ELSE ParametroCalculado("testada_minima",
            VFloat(regras(zona, natureza[1])[1]), "metros",
            "Zona " \o Str(zona) \o " - Natureza " \o Str(natureza[1]),
            <<"zona", "natureza">>, None)

_calcular_testada_minima(zona_in, natureza_in) ==
  LET zona == Upper(Strip(zona_in))
      natureza == IF Truthy(natureza_in)
                  THEN Some(Lower(Strip(natureza_in[1])))
                  ELSE None
  IN IF natureza = Some(nao_se_aplica)
     THEN ParametroCalculado("testada_minima", VNone, "metros",
            "Zona " \o Str(zona) \o " - Não se aplica",
            <<"zona", "natureza">>, None)
     ELSE IF ~Truthy(natureza)
     THEN ParametroCalculado("testada_minima", VNone, "metros",
            "Zona " \o Str(zona), <<"zona", "natureza">>,
            Some(ErroNaturezaNecessaria))
     ELSE IF regras(zona, natureza[1]) = None
     THEN ParametroCalculado("testada_minima", VNone, "metros",
            "Zona " \o Str(zona) \o " - Natureza " \o Str(natureza[1]),
            <<"zona", "natureza">>,
            Some(ErroCombinacaoNaoEncontrada(zona, natureza[1])))
     ELSE ParametroCalculado("testada_minima",
            VFloat(regras(zona, natureza[1])[1]), "metros",
            "Zona " \o Str(zona) \o " - Natureza " \o Str(natureza[1]),
            <<"zona", "natureza">>, None)

---------------------------------------------------------------------------
(* _calcular_altura_maxima.  avenida is an Optional[str] compared as is.   *)

ErroAvenidaNecessaria == "⚠ Avenida necessária para cálculo"

(* unidade: "metros" for a number, "livre" otherwise; dependencias name    *)
(* avenida only when a truthy avenida was passed.                          *)
AlturaResolvida(valor, regra, avenida) ==
  ParametroCalculado("altura_maxima", valor,
    IF valor.tipo \in {"int", "float"} THEN "metros" ELSE "livre",
    regra,
    IF TruthyStr(avenida) THEN <<"zona", "avenida">> ELSE <<"zona">>,
    None)

(* Variant: the check for a missing avenue is left out.                    *)
AlturaPorAvenida_SemAvenidaObrigatoria(zona, avenida) ==
  LET avenidas_livres ==
        { "Av. Porto Alegre", "Av. dos Emigrantes", "Av. Paulista",
          "Av. Brasil", "Av. Joao Natalino Brescansin", "Av. Tancredo Neves" }
  IN IF TruthyStr(avenida) /\ avenida[1] \in avenidas_livres
     THEN AlturaResolvida(VStr("livre"),
            "Zona " \o Str(zona) \o " - Avenida " \o avenida[1]
              \o " (altura livre)", avenida)
     ELSE AlturaResolvida(VInt(12),
            "Zona " \o Str(zona) \o " - Avenida (altura padrão)", avenida)

(* Variant: Av. Tancredo Neves is missing from the avenues of free height. *)
AlturaPorAvenida_SemTancredoNeves(zona, avenida) ==
  LET avenidas_livres ==
        { "Av. Porto Alegre", "Av. dos Emigrantes", "Av. Paulista",
          "Av. Brasil", "Av. Joao Natalino Brescansin" }
  IN IF ~TruthyStr(avenida)
     THEN ParametroCalculado("altura_maxima", VNone, "metros",
            "Zona " \o Str(zona), <<"zona", "avenida">>,
            Some(ErroAvenidaNecessaria))
     ELSE IF avenida[1] \in avenidas_livres
     THEN AlturaResolvida(VStr("livre"),
            "Zona " \o Str(zona) \o " - Avenida " \o avenida[1]
              \o " (altura livre)", avenida)
     ELSE AlturaResolvida(VInt(12),
            "Zona " \o Str(zona) \o " - Avenida " \o avenida[1]
              \o " (altura padrão)", avenida)

(* The branch of the zones that depend on the avenue.                      *)
AlturaPorAvenida(zona, avenida) ==
  LET avenidas_livres ==
        { "Av. Porto Alegre", "Av. dos Emigrantes", "Av. Paulista",
          "Av. Brasil", "Av. Joao Natalino Brescansin", "Av. Tancredo Neves" }
  IN IF ~TruthyStr(avenida)
     THEN ParametroCalculado("altura_maxima", VNone, "metros",
            "Zona " \o Str(zona), <<"zona", "avenida">>,
            Some(ErroAvenidaNecessaria))
     ELSE IF avenida[1] \in avenidas_livres
     THEN AlturaResolvida(VStr("livre"),
            "Zona " \o Str(zona) \o " - Avenida " \o avenida[1]
              \o " (altura livre)", avenida)
     ELSE AlturaResolvida(VInt(12),
            "Zona " \o Str(zona) \o " - Avenida " \o avenida[1]
              \o " (altura padrão)", avenida)

(* Variant: the unknown zone keeps the default height beside the error.    *)
AlturaZonaNaoEncontrada_ComValorPadrao(zona) ==
  ParametroCalculado("altura_maxima", VInt(12), "metros",
    "Zona " \o Str(zona), <<"zona">>, Some(ErroZonaNaoEncontrada(zona)))

(* The branch of a zone that no rule names.                                *)
AlturaZonaNaoEncontrada(zona) ==
  ParametroCalculado("altura_maxima", VNone, "metros",
    "Zona " \o Str(zona), <<"zona">>, Some(ErroZonaNaoEncontrada(zona)))

(* Variant: the industrial zone ZI1 is tested where ZII is meant.          *)
_calcular_altura_maxima_ZI1PorZII(zona_in, avenida) ==
  LET zona == Upper(Strip(zona_in))
  IN IF zona = ZC1
     THEN AlturaResolvida(VInt(12),
            "Zona " \o Str(zona) \o " - Altura máxima fixa", avenida)
     ELSE IF zona = ZC2
     THEN AlturaResolvida(VInt(8),
            "Zona " \o Str(zona) \o " - Altura máxima fixa", avenida)
     ELSE IF zona = ZI1
     THEN AlturaResolvida(VInt(2),
            "Zona " \o Str(zona) \o " - Altura máxima fixa (consultar "
              \o "CONDESS para mais pavimentos)", avenida)
     ELSE IF zona \in {ZAD2, ZCT1}
     THEN AlturaResolvida(VStr("livre"),
            "Zona " \o Str(zona) \o " - Altura livre", avenida)
     ELSE IF zona \in {ZCT2, ZCT4}
     THEN AlturaPorAvenida(zona, avenida)
     ELSE AlturaZonaNaoEncontrada(zona)

_calcular_altura_maxima(zona_in, avenida) ==
  LET zona == Upper(Strip(zona_in))
  IN IF zona = ZC1
     THEN AlturaResolvida(VInt(12),
            "Zona " \o Str(zona) \o " - Altura máxima fixa", avenida)
     ELSE IF zona = ZC2
     THEN AlturaResolvida(VInt(8),
            "Zona " \o Str(zona) \o " - Altura máxima fixa", avenida)
     ELSE IF zona = ZII
     THEN AlturaResolvida(VInt(2),
            "Zona " \o Str(zona) \o " - Altura máxima fixa (consultar "
              \o "CONDESS para mais pavimentos)", avenida)
     ELSE IF zona \in {ZAD2, ZCT1}
     THEN AlturaResolvida(VStr("livre"),
            "Zona " \o Str(zona) \o " - Altura livre", avenida)
     ELSE IF zona \in {ZCT2, ZCT4}
     THEN AlturaPorAvenida(zona, avenida)
     ELSE AlturaZonaNaoEncontrada(zona)

---------------------------------------------------------------------------
(* _calcular_outorga_onerosa                                               *)

(* Variant: any avenue of an avenue-dependent zone waives the levy.        *)
_calcular_outorga_onerosa_SemListaDeAvenidas(zona_in, avenida) ==
  LET zona == Upper(Strip(zona_in))
      deps == IF TruthyStr(avenida) THEN <<"zona", "avenida">>
              ELSE <<"zona">>
  IN IF zona \in {ZCT2, ZCT4} /\ TruthyStr(avenida)
     THEN ParametroCalculado("outorga_onerosa", VStr("livre"), "status",
            "Zona " \o Str(zona) \o " - Avenida " \o avenida[1]
              \o " (sem cobrança)", deps, None)
     ELSE ParametroCalculado("outorga_onerosa", VStr("cobrança"), "status",
            "Zona " \o Str(zona) \o " - Cobrança padrão", deps, None)

_calcular_outorga_onerosa(zona_in, avenida) ==
  LET zona == Upper(Strip(zona_in))
      avenidas_livres ==
        { "Av. Porto Alegre", "Av. dos Emigrantes", "Av. Paulista",
          "Av. Brasil", "Av. Joao Natalino Brescansin", "Av. Tancredo Neves" }
      deps == IF TruthyStr(avenida) THEN <<"zona", "avenida">>
              ELSE <<"zona">>
  IN IF zona \in {ZCT2, ZCT4} /\ TruthyStr(avenida)
     THEN IF avenida[1] \in avenidas_livres
          THEN ParametroCalculado("outorga_onerosa", VStr("livre"), "status",
                 "Zona " \o Str(zona) \o " - Avenida " \o avenida[1]
                   \o " (sem cobrança)", deps, None)
          ELSE ParametroCalculado("outorga_onerosa", VStr("cobrança"),
                 "status",
                 "Zona " \o Str(zona) \o " - Avenida " \o avenida[1]
                   \o " (com cobrança)", deps, None)
     ELSE ParametroCalculado("outorga_onerosa", VStr("cobrança"), "status",
            "Zona " \o Str(zona) \o " - Cobrança padrão", deps, None)

---------------------------------------------------------------------------
(* calcular_todos_parametros: the aggregator.  A DadosCalculoParametros    *)
(* object is a record of its declared fields; reading an attribute that    *)
(* the model class does not declare raises AttributeError, which the       *)
(* aggregator logs and re-raises.  The returned dict is the sequence of    *)
(* its entries in insertion order.                                         *)

DadosCalculoParametros(zona, tipologia, pavimentos, altura_total, avenida, natureza, zona_atravessada) ==
  [zona |-> zona, tipologia |-> tipologia, municipio |-> "SORRISO",
   pavimentos |-> pavimentos, altura_total |-> altura_total,
   avenida |-> avenida, natureza |-> natureza,
   zona_atravessada |-> zona_atravessada]

HasAttr(obj, nome) == nome \in DOMAIN obj

Entrada(chave, valor) == [chave |-> chave, parametro |-> valor]

calcular_todos_parametros(dados) ==
  IF ~HasAttr(dados, "tipo_empreendimento")
  THEN [excecao |-> Some("AttributeError"), parametros |-> <<>>]
  ELSE [excecao |-> None,
        parametros |->
          << Entrada("recuo_frontal",
               _calcular_recuo_frontal(dados.zona, dados.tipo_empreendimento)),
             Entrada("recuo_lateral",
               _calcular_recuo_lateral(dados.zona, dados.pavimentos,
                 dados.altura_total, dados.zona_atravessada)),
             Entrada("recuo_fundos",
               _calcular_recuo_fundos(dados.zona, dados.pavimentos,
                 dados.altura_total, dados.zona_atravessada)),
             Entrada("testada_minima",
               _calcular_testada_minima(dados.zona, dados.natureza)),
             Entrada("altura_maxima",
               _calcular_altura_maxima(dados.zona, dados.avenida)),
             Entrada("outorga_onerosa",
               _calcular_outorga_onerosa(dados.zona, dados.avenida)) >>]

---------------------------------------------------------------------------
(* ValidacaoZoneService: the field-dependency resolver.  The instance is   *)
(* the record of the attributes __init__ sets; every method reads its      *)
(* tables from self.  A dict is the sequence of its entries in insertion   *)
(* order; list(a_set) is kept as the set, its order being unspecified.     *)

Desmembramento ==
  <<"D", "e", "s", "m", "e", "m", "b", "r", "a", "m", "e", "n", "t", "o">>

LoteamentoECondominio ==
  << "L", "o", "t", "e", "a", "m", "e", "n", "t", "o", " ", "e", " ",
     "C", "o", "n", "d", "o", "m", "í", "n", "i", "o" >>

NaoSeAplica ==
  <<"N", "ã", "o", " ", "s", "e", " ", "a", "p", "l", "i", "c", "a">>

Arquitetonico ==
  <<"A", "r", "q", "u", "i", "t", "e", "t", "o", "n", "i", "c", "o">>

Urbanistico == <<"U", "r", "b", "a", "n", "i", "s", "t", "i", "c", "o">>

zonas_com_avenida == {ZCT2, ZCT4}

zonas_com_recuos_dinamicos ==
  {ZC1, ZC2, ZAD1, ZAD2, ZH1, ZH2, ZH3, ZCT1, ZCT2, ZCT3, ZCT4, ZEIS}

zonas_com_testada_SemZH3 == {ZAD1, ZAD2, ZH2, ZCT2, ZCT3, ZCT4}

zonas_com_testada == {ZAD1, ZAD2, ZH2, ZH3, ZCT2, ZCT3, ZCT4}

naturezas_com_testada_ComNaoSeAplica ==
  {Desmembramento, LoteamentoECondominio, NaoSeAplica}

naturezas_com_testada == {Desmembramento, LoteamentoECondominio}

naturezas_arquitetonico_Vazio == {}

naturezas_arquitetonico == {Arquitetonico}

naturezas_urbanistico == {Urbanistico}

(* ValidacaoZoneService(): the instance __init__ builds.                   *)
ValidacaoZoneService ==
  [zonas_com_avenida |-> zonas_com_avenida,
   zonas_com_recuos_dinamicos |-> zonas_com_recuos_dinamicos,
   zonas_com_testada |-> zonas_com_testada,
   naturezas_com_testada |-> naturezas_com_testada,
   naturezas_arquitetonico |-> naturezas_arquitetonico,
   naturezas_urbanistico |-> naturezas_urbanistico]

OpcoesAvenida_ComRuaDasFlores ==
  << "Av. Porto Alegre", "Av. dos Emigrantes", "Av. Paulista", "Av. Brasil",
     "Av. Joao Natalino Brescansin", "Av. Tancredo Neves", "Rua das Flores" >>

(* The option list offered for avenida.                                    *)
OpcoesAvenida ==
  << "Av. Porto Alegre", "Av. dos Emigrantes", "Av. Paulista", "Av. Brasil",
     "Av. Joao Natalino Brescansin", "Av. Tancredo Neves" >>

Se(condicao, itens) == IF condicao THEN itens ELSE <<>>

(* One entry of the campos_condicionais dict.                              *)
Condicional(chave, valor) == [chave |-> chave, campo |-> valor]

_get_preview_parametros(self, zona) ==
  << [nome |-> "recuo_frontal", descricao |-> "Recuo frontal",
      dependencias |-> <<"zona", "tipo_empreendimento">>,
      calculavel |-> TRUE] >>
  \o Se(zona \in self.zonas_com_recuos_dinamicos,
        << [nome |-> "recuo_lateral", descricao |-> "Recuo lateral",
            dependencias |-> <<"zona", "pavimentos", "altura_total">>,
            calculavel |-> TRUE],
           [nome |-> "recuo_fundos", descricao |-> "Recuo de fundos",
            dependencias |-> <<"zona", "pavimentos", "altura_total">>,
            calculavel |-> TRUE] >>)
  \o Se(zona \in self.zonas_com_testada,
        << [nome |-> "testada_minima", descricao |-> "Testada mínima",
            dependencias |-> <<"zona", "natureza">>, calculavel |-> TRUE,
            condicional |-> "Apenas para loteamentos e desmembramentos"] >>)
  \o (IF zona \in self.zonas_com_avenida
      THEN << [nome |-> "altura_maxima", descricao |-> "Altura máxima",
               dependencias |-> <<"zona", "avenida">>, calculavel |-> TRUE],
              [nome |-> "outorga_onerosa", descricao |-> "Outorga onerosa",
               dependencias |-> <<"zona", "avenida">>, calculavel |-> TRUE] >>
      ELSE << [nome |-> "altura_maxima", descricao |-> "Altura máxima",
               dependencias |-> <<"zona">>, calculavel |-> TRUE],
              [nome |-> "outorga_onerosa", descricao |-> "Outorga onerosa",
               dependencias |-> <<"zona">>, calculavel |-> TRUE] >>)

get_dependencias_por_zona(self, zona_in) ==
  LET zona == Upper(Strip(zona_in))
      dinamico == zona \in self.zonas_com_recuos_dinamicos
      avenida == zona \in self.zonas_com_avenida
      testada == zona \in self.zonas_com_testada
  IN [zona |-> zona,
      campos_obrigatorios |->
        <<"tipo_empreendimento", "natureza">>
        \o Se(dinamico, <<"pavimentos", "altura_total">>)
        \o Se(avenida, <<"avenida">>),
      campos_opcionais |-> <<>>,
      campos_condicionais |->
        Se(avenida,
           << Condicional("avenida",
                [obrigatorio |-> TRUE,
                 motivo |-> "Necessário para cálculo de altura máxima e "
                              \o "outorga onerosa",
                 opcoes |-> OpcoesAvenida]) >>)
        \o Se(testada,
           << Condicional("testada_minima",
                [obrigatorio_por_natureza |-> TRUE,
                 naturezas_validas |-> self.naturezas_com_testada,
                 motivo |-> "Aplicável apenas para loteamentos e "
                              \o "desmembramentos"]) >>)
        \o << Condicional("area_minima_lote",
                [obrigatorio_por_natureza |-> TRUE,
                 naturezas_validas |-> self.naturezas_com_testada,
                 motivo |-> "Área mínima do lote para projetos de "
                              \o "loteamento"]) >>,
      mensagens |->
        Se(dinamico,
           << "⚠ Pavimentos e altura são obrigatórios para cálculo de "
                \o "recuos laterais e de fundos" >>)
        \o Se(avenida,
           <<"(i) Campo avenida é obrigatório para zonas ZCT2 e ZCT4">>)
        \o Se(testada,
           << "(i) Testada mínima aplicável para loteamentos e "
                \o "desmembramentos" >>),
      preview_parametros |-> _get_preview_parametros(self, zona)]

(* natureza is compared as passed; campos_preenchidos is not read.         *)
validate_campos_por_natureza(self, natureza, campos_preenchidos) ==
  LET validacao(obrigatorios, ignorados, mensagens) ==
        [natureza |-> natureza, campos_obrigatorios |-> obrigatorios,
         campos_opcionais |-> <<>>, campos_ignorados |-> ignorados,
         mensagens |-> mensagens]
  IN IF natureza = NaoSeAplica
     THEN validacao(<<>>, <<"testada_minima", "area_minima_lote">>,
            << "(i) Testada mínima e área mínima do lote não se aplicam "
                 \o "para este tipo de projeto" >>)
     ELSE IF natureza \in self.naturezas_com_testada
     THEN validacao(<<"testada_minima", "area_minima_lote">>, <<>>,
            << "⚠ Testada mínima e área mínima do lote são obrigatórias "
                 \o "para loteamentos e desmembramentos" >>)
     ELSE IF natureza \in self.naturezas_arquitetonico
     THEN validacao(<<"pavimentos", "altura_total", "area_construida">>,
            <<>>,
            << "⚠ Pavimentos, altura total e área construída são "
                 \o "obrigatórios para projetos arquitetônicos" >>)
     ELSE IF natureza \in self.naturezas_urbanistico
     THEN validacao(<<"area_construida">>, <<>>,
            << "⚠ Área construída é obrigatória para projetos "
                 \o "urbanísticos" >>)
     ELSE validacao(<<>>, <<>>, <<>>)

get_campos_condicionais_por_zona_e_natureza(self, zona_in, natureza_in) ==
  LET zona == Upper(Strip(zona_in))
      natureza == Strip(natureza_in)
      testada == zona \in self.zonas_com_testada
      com_testada == natureza \in self.naturezas_com_testada
      avenida == zona \in self.zonas_com_avenida
  IN [zona |-> zona,
      natureza |-> natureza,
      campos_visiveis |->
        Se(testada /\ com_testada, <<"testada_minima">>)
        \o Se(com_testada, <<"area_minima_lote">>)
        \o Se(avenida, <<"avenida">>),
      campos_ocultos |->
        Se(testada /\ ~com_testada /\ natureza = NaoSeAplica,
           <<"testada_minima">>)
        \o Se(~com_testada
                /\ natureza \in {NaoSeAplica, Arquitetonico, Urbanistico},
              <<"area_minima_lote">>)
        \o Se(~avenida, <<"avenida">>),
      campos_obrigatorios |->
        Se(testada /\ com_testada, <<"testada_minima">>)
        \o Se(com_testada, <<"area_minima_lote">>)
        \o (IF natureza \in self.naturezas_arquitetonico
            THEN <<"pavimentos", "altura_total", "area_construida">>
            ELSE Se(natureza \in self.naturezas_urbanistico,
                    <<"area_construida">>))
        \o Se(avenida, <<"avenida">>),
      campos_opcionais |-> <<>>]

---------------------------------------------------------------------------
(* The inputs the operations are applied to.                               *)

ZonasValidas ==
  { ZAD1, ZAD2, ZC1, ZC2, ZCT1, ZCT2, ZCT3, ZCT4, ZEIS, ZH1, ZH2, ZH3,
    ZHL, ZI1, ZI2, ZIA1, ZIA2, ZII }

ZonasEntrada ==
  ZonasValidas \cup
  { Lower(ZCT2), <<" ">> \o ZC1 \o <<" ">>, Lower(ZEIS) \o <<"\t">>,
    <<" ">> \o Lower(ZI1), <<"Z", "X", "9">>, ZCT, <<" ">>, <<>> }

TipologiasEntrada ==
  { Residencial, Lower(Comercial), <<" ">> \o Upper(Residencial) \o <<" ">>,
    Comercial, <<"M", "i", "s", "t", "o">>, <<>> }

PavimentosEntrada == {None} \cup {Some(n) : n \in 0..MaxPavimentos}

AlturasEntrada ==
  {None} \cup {Some(10 * AlturaPasso * k) : k \in 0..MaxAlturaPassos}
         \cup {Some(1500), Some(2000)}

AvenidasEntrada ==
  { None, Some(""), Some("Av. Porto Alegre"), Some("Av. dos Emigrantes"),
    Some("Av. Paulista"), Some("Av. Brasil"),
    Some("Av. Joao Natalino Brescansin"), Some("Av. Tancredo Neves"),
    Some("Av. Brasil "), Some("av. brasil"), Some("Rua das Flores") }

NaturezasEntrada ==
  { None, Some(<<>>),
    Some(Capitalize(desmembramento)),
    Some(<<"L">> \o SubSeq(loteamento_e_condominio, 2, 13) \o
         <<"C", "o", "n", "d", "o", "m", "í", "n", "i", "o">>),
    Some(loteamento_e_condominio),
    Some(Capitalize(nao_se_aplica)),
    Some(<<" ">> \o Upper(nao_se_aplica) \o <<" ">>),
    Some(<<"A", "r", "q", "u", "i", "t", "e", "t", "o", "n", "i", "c", "o">>),
    Some(<<"U", "r", "b", "a", "n", "i", "s", "t", "i", "c", "o">>),
    Some(<<" ">>) }

ZonasAtravessadasEntrada ==
  { None, Some(<<>>), Some(ZC1), Some(ZI2), Some(<<" ">> \o Lower(ZH3)),
    Some(ZCT2), Some(ZIA1) }

(* The natures the resolver endpoints receive as path parameters.         *)
NaturezasResolver ==
  { Desmembramento, LoteamentoECondominio, NaoSeAplica, Arquitetonico,
    Urbanistico, <<" ">> \o NaoSeAplica \o <<" ">>,
    Desmembramento \o <<" ">>, Lower(NaoSeAplica),
    Upper(Desmembramento), loteamento_e_condominio, <<"M", "i", "s", "t", "o">>,
    <<" ">>, Arquitetonico \o <<" ">>, <<" ">> \o Urbanistico }

(* The records handed to the aggregator.                                   *)
DadosEntrada ==
  { DadosCalculoParametros(z, t, p, a, av, n, za) :
      z \in ZonasEntrada,
      t \in {Residencial, Lower(Comercial), <<"M", "i", "s", "t", "o">>},
      p \in {None, Some(2), Some(MaxPavimentos)},
      a \in {None, Some(2000)},
      av \in {None, Some("Av. Brasil"), Some("Rua das Flores")},
      n \in {None, Some(Capitalize(desmembramento)),
             Some(Capitalize(nao_se_aplica))},
      za \in {None, Some(ZC1)} }

---------------------------------------------------------------------------
(* State: one call of one operation.  pc is "pronto" before the call and   *)
(* "feito" after it; op names the operation called, args its arguments,    *)
(* parametro the ParametroCalculado an evaluator returned, parametros the  *)
(* dict the aggregator returned, excecao the exception that left the call, *)
(* resposta the dict a resolver method returned.  validacao_zone_service   *)
(* is the module-level resolver instance every resolver call reads and     *)
(* parametros_service the module-level evaluator instance.  chamadas holds *)
(* the frames of the callers that share the two instances concurrently.    *)

SemParametro == ParametroCalculado("", VNone, "", "", <<>>, None)

SemResposta == [nenhuma |-> TRUE]

(* ParametrosUrbanisticosService(): the instance __init__ builds.          *)
ParametrosUrbanisticosService ==
  [legislacao |-> "LC_108_2009_ALTERADA_LC_415_2023"]

Chamadores == {"a", "b"}

(* The requests that create projects concurrently.  Each runs as an        *)
(* asyncio task: it keeps the processor between two awaits.               *)
Criadores == {"p", "q"}

(* A request's position in create_projeto, the locals tentativas and       *)
(* codigo of gerar_codigo_projeto_unico, and how its last existence check  *)
(* ended.                                                                  *)
CriadorOcioso ==
  [pc |-> "ocioso", tentativas |-> 0, codigo |-> None, verificacao |-> "nenhuma"]

SemRetorno == [op |-> "nenhuma"]

(* The collections are empty when the application starts.                  *)
BancoVazio ==
  /\ terrenos = <<>>
  /\ param_urb_terrenos = <<>>
  /\ projetos = <<>>
  /\ retorno = SemRetorno
  /\ criadores = [c \in Criadores |-> CriadorOcioso]

Ocioso ==
  [pc |-> "ocioso", op |-> "nenhuma", args |-> [nenhum |-> TRUE],
   resultado |-> [nenhum |-> TRUE]]

UmaChamada ==
  /\ pc = "pronto"
  /\ op = "nenhuma"
  /\ args = [nenhum |-> TRUE]
  /\ parametro = SemParametro
  /\ parametros = <<>>
  /\ excecao = None
  /\ resposta = SemResposta

Init ==
  /\ UmaChamada
  /\ validacao_zone_service = ValidacaoZoneService
  /\ parametros_service = ParametrosUrbanisticosService
  /\ chamadas = [c \in Chamadores |-> Ocioso]
  /\ BancoVazio

Avaliou(nome, argumentos, resultado) ==
  /\ pc' = "feito"
  /\ op' = nome
  /\ args' = argumentos
  /\ parametro' = resultado
  /\ UNCHANGED <<parametros, excecao, resposta, validacao_zone_service,
                 parametros_service, chamadas, varsRepositorios>>

CalcularRecuoFrontal ==
  /\ pc = "pronto"
  /\ \E zona \in ZonasEntrada, tipologia \in TipologiasEntrada :
    Avaliou("recuo_frontal", [zona |-> zona, tipologia |-> tipologia],
            _calcular_recuo_frontal(zona, tipologia))

CalcularRecuoLateral ==
  /\ pc = "pronto"
  /\ \E zona \in ZonasEntrada, pavimentos \in PavimentosEntrada,
     altura_total \in AlturasEntrada,
     zona_atravessada \in ZonasAtravessadasEntrada :
    Avaliou("recuo_lateral",
            [zona |-> zona, pavimentos |-> pavimentos,
             altura_total |-> altura_total,
             zona_atravessada |-> zona_atravessada],
            _calcular_recuo_lateral(zona, pavimentos, altura_total,
                                    zona_atravessada))

CalcularRecuoFundos ==
  /\ pc = "pronto"
  /\ \E zona \in ZonasEntrada, pavimentos \in PavimentosEntrada,
     altura_total \in AlturasEntrada,
     zona_atravessada \in ZonasAtravessadasEntrada :
    Avaliou("recuo_fundos",
            [zona |-> zona, pavimentos |-> pavimentos,
             altura_total |-> altura_total,
             zona_atravessada |-> zona_atravessada],
            _calcular_recuo_fundos(zona, pavimentos, altura_total,
                                   zona_atravessada))

CalcularTestadaMinima ==
  /\ pc = "pronto"
  /\ \E zona \in ZonasEntrada, natureza \in NaturezasEntrada :
    Avaliou("testada_minima", [zona |-> zona, natureza |-> natureza],
            _calcular_testada_minima(zona, natureza))

CalcularAlturaMaxima ==
  /\ pc = "pronto"
  /\ \E zona \in ZonasEntrada, avenida \in AvenidasEntrada :
    Avaliou("altura_maxima", [zona |-> zona, avenida |-> avenida],
            _calcular_altura_maxima(zona, avenida))

CalcularOutorgaOnerosa ==
  /\ pc = "pronto"
  /\ \E zona \in ZonasEntrada, avenida \in AvenidasEntrada :
    Avaliou("outorga_onerosa", [zona |-> zona, avenida |-> avenida],
            _calcular_outorga_onerosa(zona, avenida))

CalcularTodosParametros ==
  /\ pc = "pronto"
  /\ \E dados \in DadosEntrada :
    LET r == calcular_todos_parametros(dados)
    IN /\ pc' = "feito"
       /\ op' = "calcular_todos_parametros"
       /\ args' = [dados |-> dados]
       /\ parametros' = r.parametros
       /\ excecao' = r.excecao
       /\ UNCHANGED <<parametro, resposta, validacao_zone_service,
                      parametros_service, chamadas, varsRepositorios>>

Respondeu(nome, argumentos, resultado) ==
  /\ pc' = "feito"
  /\ op' = nome
  /\ args' = argumentos
  /\ resposta' = resultado
  /\ UNCHANGED <<parametro, parametros, excecao, validacao_zone_service,
                 parametros_service, chamadas, varsRepositorios>>

GetDependenciasPorZona ==
  /\ pc = "pronto"
  /\ \E zona \in ZonasEntrada :
    Respondeu("get_dependencias_por_zona", [zona |-> zona],
              get_dependencias_por_zona(validacao_zone_service, zona))

ValidateCamposPorNatureza ==
  /\ pc = "pronto"
  /\ \E natureza \in NaturezasResolver :
    Respondeu("validate_campos_por_natureza", [natureza |-> natureza],
              validate_campos_por_natureza(validacao_zone_service, natureza,
                                           <<>>))

GetCamposCondicionaisPorZonaENatureza ==
  /\ pc = "pronto"
  /\ \E zona \in ZonasEntrada, natureza \in NaturezasResolver :
    Respondeu("get_campos_condicionais_por_zona_e_natureza",
              [zona |-> zona, natureza |-> natureza],
              get_campos_condicionais_por_zona_e_natureza(
                validacao_zone_service, zona, natureza))

Next ==
  \/ CalcularRecuoFrontal
  \/ CalcularRecuoLateral
  \/ CalcularRecuoFundos
  \/ CalcularTestadaMinima
  \/ CalcularAlturaMaxima
  \/ CalcularOutorgaOnerosa
  \/ CalcularTodosParametros
  \/ GetDependenciasPorZona
  \/ ValidateCamposPorNatureza
  \/ GetCamposCondicionaisPorZonaENatureza

Spec == Init /\ [][Next]_vars

---------------------------------------------------------------------------
(* Concurrent callers.  The routers run every request against the two      *)
(* module-level instances; a caller enters a method, the method computes   *)
(* its result from its arguments and from what the shared instance holds   *)
(* at that moment, and the caller returns.  Steps of different callers     *)
(* interleave freely.                                                      *)

ZonasConc == {ZC1, ZH3, ZCT2, ZI1}

ChamadasConc ==
  { [op |-> "recuo_frontal", args |-> [zona |-> z, tipologia |-> t]] :
      z \in ZonasConc, t \in {Residencial, Lower(Comercial)} }
  \cup
  { [op |-> o,
     args |-> [zona |-> z, pavimentos |-> p, altura_total |-> Some(2000),
               zona_atravessada |-> za]] :
      o \in {"recuo_lateral", "recuo_fundos"}, z \in ZonasConc,
      p \in {None, Some(2)}, za \in {None, Some(ZC1)} }
  \cup
  { [op |-> "testada_minima", args |-> [zona |-> z, natureza |-> n]] :
      z \in ZonasConc, n \in {None, Some(Capitalize(desmembramento))} }
  \cup
  { [op |-> o, args |-> [zona |-> z, avenida |-> av]] :
      o \in {"altura_maxima", "outorga_onerosa"}, z \in ZonasConc,
      av \in {None, Some("Av. Brasil")} }
  \cup
  { [op |-> "calcular_todos_parametros",
     args |-> [dados |-> DadosCalculoParametros(z, Residencial, Some(2),
                           Some(2000), None, None, None)]] :
      z \in ZonasConc }
  \cup
  { [op |-> "get_dependencias_por_zona", args |-> [zona |-> z]] :
      z \in ZonasConc }
  \cup
  { [op |-> "validate_campos_por_natureza", args |-> [natureza |-> n]] :
      n \in {NaoSeAplica, Desmembramento} }
  \cup
  { [op |-> "get_campos_condicionais_por_zona_e_natureza",
     args |-> [zona |-> z, natureza |-> n]] :
      z \in ZonasConc, n \in {NaoSeAplica, Desmembramento} }

(* What the method called nome returns for the arguments a when the        *)
(* resolver instance is self.  The evaluators and the aggregator build     *)
(* their tables inside the call and read no attribute of their instance.   *)
Resultado(self, nome, a) ==
  CASE nome = "recuo_frontal" -> _calcular_recuo_frontal(a.zona, a.tipologia)
    [] nome = "recuo_lateral" ->
         _calcular_recuo_lateral(a.zona, a.pavimentos, a.altura_total,
                                 a.zona_atravessada)
    [] nome = "recuo_fundos" ->
         _calcular_recuo_fundos(a.zona, a.pavimentos, a.altura_total,
                                a.zona_atravessada)
    [] nome = "testada_minima" -> _calcular_testada_minima(a.zona, a.natureza)
    [] nome = "altura_maxima" -> _calcular_altura_maxima(a.zona, a.avenida)
    [] nome = "outorga_onerosa" ->
         _calcular_outorga_onerosa(a.zona, a.avenida)
    [] nome = "calcular_todos_parametros" ->
         calcular_todos_parametros(a.dados)
    [] nome = "get_dependencias_por_zona" ->
         get_dependencias_por_zona(self, a.zona)
    [] nome = "validate_campos_por_natureza" ->
         validate_campos_por_natureza(self, a.natureza, <<>>)
    [] nome = "get_campos_condicionais_por_zona_e_natureza" ->
         get_campos_condicionais_por_zona_e_natureza(self, a.zona,
                                                     a.natureza)

(* Variant: the zone-only method records the zone it was asked about.      *)
InstanciaApos_MemorizaZona(self, nome, a) ==
  IF nome = "get_dependencias_por_zona"
  THEN [self EXCEPT !.zonas_com_testada = @ \cup {Upper(Strip(a.zona))}]
  ELSE self

(* The resolver instance after a call: outside __init__ no method assigns  *)
(* an attribute of self or changes one of its sets.                        *)
InstanciaApos(self, nome, a) == self

Chamar(c) ==
  /\ chamadas[c].pc = "ocioso"
  /\ \E ch \in ChamadasConc :
       chamadas' = [chamadas EXCEPT ![c] =
                      [pc |-> "chamou", op |-> ch.op, args |-> ch.args,
                       resultado |-> Ocioso.resultado]]
  /\ UNCHANGED <<pc, op, args, parametro, parametros, excecao, resposta,
                 validacao_zone_service, parametros_service,
                 varsRepositorios>>

Avaliar(c) ==
  /\ chamadas[c].pc = "chamou"
  /\ chamadas' = [chamadas EXCEPT
                    ![c].pc = "avaliou",
                    ![c].resultado = Resultado(validacao_zone_service,
                                               chamadas[c].op,
                                               chamadas[c].args)]
  /\ validacao_zone_service' = InstanciaApos(validacao_zone_service,
                                             chamadas[c].op, chamadas[c].args)
  /\ UNCHANGED <<pc, op, args, parametro, parametros, excecao, resposta,
                 parametros_service, varsRepositorios>>

Retornar(c) ==
  /\ chamadas[c].pc = "avaliou"
  /\ chamadas' = [chamadas EXCEPT ![c].pc = "retornou"]
  /\ UNCHANGED <<pc, op, args, parametro, parametros, excecao, resposta,
                 validacao_zone_service, parametros_service,
                 varsRepositorios>>

NextConc == \E c \in Chamadores : Chamar(c) \/ Avaliar(c) \/ Retornar(c)

SpecConc == Init /\ [][NextConc]_vars

---------------------------------------------------------------------------
(* Vocabulary of the properties.                                           *)

Feito(nome) == pc = "feito" /\ op = nome

(* The zone an evaluator identifies: trimmed and upper-cased.              *)
Norm(zona) == Upper(Strip(zona))

NomesParametros ==
  << "recuo_frontal", "recuo_lateral", "recuo_fundos", "testada_minima",
     "altura_maxima", "outorga_onerosa" >>

Avaliadores == {NomesParametros[i] : i \in DOMAIN NomesParametros}

(* The avenue whitelist of the catalog.                                    *)
AvenidasIsentas ==
  { "Av. Porto Alegre", "Av. dos Emigrantes", "Av. Paulista", "Av. Brasil",
    "Av. Joao Natalino Brescansin", "Av. Tancredo Neves" }

AvenidaInformada(avenida) == avenida /= None /\ avenida[1] /= ""

(* The two setback groups of the catalog.                                  *)
GrupoMinimo150 == {ZC1, ZC2, ZAD1, ZAD2, ZH1, ZH2, ZH3, ZHL, ZEIS}

GrupoMinimo200 == {ZI1, ZI2}

(* The zone after substitution of the crossed zone.                        *)
ZonaAposSubstituicao(zona, zona_atravessada) ==
  IF StartsWith(Norm(zona), ZCT) /\ zona_atravessada /= None
       /\ zona_atravessada[1] /= <<>>
  THEN Norm(zona_atravessada[1])
  ELSE Norm(zona)

MinimoDoGrupo(zona_ref) == IF zona_ref \in GrupoMinimo150 THEN 150 ELSE 200

Algarismos == <<"0", "1", "2", "3", "4", "5", "6", "7", "8", "9">>

(* A length in hundredths written with two decimals.                       *)
DuasCasas(c) ==
  ToString(c \div 100) \o "." \o Algarismos[((c \div 10) % 10) + 1]
    \o Algarismos[(c % 10) + 1]

FeitoRecuoDinamico == Feito("recuo_lateral") \/ Feito("recuo_fundos")

---------------------------------------------------------------------------
(* C1: for every input record with a non-empty zone the aggregator returns *)
(* a mapping with exactly the six parameters recuo_frontal, recuo_lateral, *)
(* recuo_fundos, testada_minima, altura_maxima, outorga_onerosa, in that   *)
(* order, each entry holding the parameter of that name.                   *)
C1_SeisParametrosEmOrdem ==
  (Feito("calcular_todos_parametros") /\ args.dados.zona /= <<>>)
    => /\ Len(parametros) = Len(NomesParametros)
       /\ \A i \in DOMAIN parametros :
            /\ parametros[i].chave = NomesParametros[i]
            /\ parametros[i].parametro.nome = NomesParametros[i]

(* C2: the aggregator never lets an exception cross its boundary for an    *)
(* input record with a non-empty zone and a use string.                    *)
C2_NuncaLancaExcecao ==
  (Feito("calcular_todos_parametros") /\ args.dados.zona /= <<>>)
    => excecao = None

(* C3: every ParametroCalculado an evaluator returns has an absent valor   *)
(* whenever its erro is set.                                               *)
C3_ErroImplicaValorAusente ==
  (pc = "feito" /\ op \in Avaliadores)
    => (parametro.erro /= None => parametro.valor = VNone)

C3_Witness ==
  /\ Feito("altura_maxima")
  /\ Norm(args.zona) = ZIA1
  /\ parametro.erro /= None

(* C4: the levy is waived ("livre") exactly when the zone is ZCT2 or ZCT4  *)
(* and the supplied avenue is in the whitelist; every other combination,   *)
(* a missing avenue included, gives "cobrança".                            *)
C4_OutorgaLivreSseAvenidaIsenta ==
  Feito("outorga_onerosa")
    => LET isenta == /\ Norm(args.zona) \in {ZCT2, ZCT4}
                     /\ args.avenida /= None
                     /\ args.avenida[1] \in AvenidasIsentas
       IN /\ parametro.erro = None
          /\ parametro.valor =
               IF isenta THEN VStr("livre") ELSE VStr("cobrança")

C4_Witness ==
  /\ Feito("outorga_onerosa")
  /\ args.zona = Lower(ZCT2)
  /\ args.avenida = Some("Av. Tancredo Neves")
  /\ parametro.valor = VStr("livre")

(* C5: for ZCT2 or ZCT4 the maximum height is the 'avenue required' error  *)
(* with absent value when no avenue is supplied, "livre" when the avenue   *)
(* is in the whitelist, and 12 when it is not.                             *)
C5_AlturaPorAvenida ==
  (Feito("altura_maxima") /\ Norm(args.zona) \in {ZCT2, ZCT4})
    => IF ~AvenidaInformada(args.avenida)
       THEN /\ parametro.erro = Some(ErroAvenidaNecessaria)
            /\ parametro.valor = VNone
       ELSE /\ parametro.erro = None
            /\ parametro.valor =
                 IF args.avenida[1] \in AvenidasIsentas
                 THEN VStr("livre") ELSE VInt(12)

C5_Witness ==
  /\ Feito("altura_maxima")
  /\ args.zona = ZCT4
  /\ args.avenida = Some("Rua das Flores")
  /\ parametro.valor = VInt(12)

(* C6: the maximum height is 12 for ZC1, 8 for ZC2, 2 for ZII and "livre"  *)
(* for ZAD2 and ZCT1, whatever the avenue; a zone that is not fixed,       *)
(* unrestricted or avenue-dependent gives the 'zone not found' error with  *)
(* absent value.                                                           *)
C6_AlturaPorZona ==
  Feito("altura_maxima")
    => LET zona == Norm(args.zona)
       IN /\ zona = ZC1 => parametro.valor = VInt(12) /\ parametro.erro = None
          /\ zona = ZC2 => parametro.valor = VInt(8) /\ parametro.erro = None
          /\ zona = ZII => parametro.valor = VInt(2) /\ parametro.erro = None
          /\ zona \in {ZAD2, ZCT1}
               => parametro.valor = VStr("livre") /\ parametro.erro = None
          /\ zona \notin {ZC1, ZC2, ZII, ZAD2, ZCT1, ZCT2, ZCT4}
               => /\ parametro.erro = Some(ErroZonaNaoEncontrada(zona))
                  /\ parametro.valor = VNone

C6_Witness ==
  /\ Feito("altura_maxima")
  /\ args.zona = ZII
  /\ args.avenida = Some("Av. Brasil")
  /\ parametro.valor = VInt(2)

(* C7: for a zone (after substitution) in a setback group, more than two   *)
(* floors and a height, the lateral and the rear setback are               *)
(* max(height / 10, group minimum) written with two decimals and " m";     *)
(* five floors and 20.0 m in the 1.5 group give "2.00 m".                  *)
C7_RecuoMaxAlturaSobreDez ==
  /\ (/\ FeitoRecuoDinamico
      /\ args.pavimentos /= None
      /\ args.altura_total /= None
      /\ ZonaAposSubstituicao(args.zona, args.zona_atravessada)
           \in GrupoMinimo150 \cup GrupoMinimo200)
       => (args.pavimentos[1] > 2
             => /\ parametro.erro = None
                /\ parametro.valor =
                     VStr(DuasCasas(
                            Max(args.altura_total[1] \div 10,
                                MinimoDoGrupo(ZonaAposSubstituicao(
                                  args.zona, args.zona_atravessada))))
                          \o " m"))
  /\ (/\ FeitoRecuoDinamico
      /\ args.pavimentos = Some(5)
      /\ args.altura_total = Some(2000)
      /\ ZonaAposSubstituicao(args.zona, args.zona_atravessada)
           \in GrupoMinimo150)
       => parametro.valor = VStr("2.00 m")

C7_Witness ==
  /\ Feito("recuo_fundos")
  /\ args.zona = ZH1
  /\ args.pavimentos = Some(5)
  /\ args.altura_total = Some(2000)
  /\ parametro.valor = VStr("2.00 m")

(* C8: for a zone in a setback group and at most two floors the lateral    *)
(* and the rear setback are the string "0 m (exceto se houver aberturas →  *)
(* mínimo M m)" with the group minimum M written with two decimals (1.50,  *)
(* 2.00).                                                                  *)
C8_MinimoComDuasCasas ==
  (/\ FeitoRecuoDinamico
   /\ args.pavimentos /= None
   /\ args.altura_total /= None
   /\ ZonaAposSubstituicao(args.zona, args.zona_atravessada)
        \in GrupoMinimo150 \cup GrupoMinimo200)
    => (args.pavimentos[1] <= 2
          => parametro.valor =
               VStr("0 m (exceto se houver aberturas → mínimo "
                    \o DuasCasas(MinimoDoGrupo(ZonaAposSubstituicao(
                                   args.zona, args.zona_atravessada)))
                    \o " m)"))

(* C9: in the lateral and rear setback a missing floor count or height     *)
(* gives the 'insufficient data' error for every zone; the 'uncatalogued   *)
(* zone' error is given only when both are present and the zone after      *)
(* substitution is in neither group.                                       *)
C9_DadosInsuficientesAntesDaZona ==
  FeitoRecuoDinamico
    => /\ (args.pavimentos = None \/ args.altura_total = None)
            => /\ parametro.erro = Some(ErroDadosInsuficientes)
               /\ parametro.valor = VNone
       /\ parametro.erro = Some(ErroZonaNaoCadastrada(Norm(args.zona)))
            <=> /\ args.pavimentos /= None
                /\ args.altura_total /= None
                /\ ZonaAposSubstituicao(args.zona, args.zona_atravessada)
                     \notin GrupoMinimo150 \cup GrupoMinimo200

C9_Witness ==
  /\ Feito("recuo_lateral")
  /\ args.zona = ZCT
  /\ args.zona_atravessada = Some(ZIA1)
  /\ args.pavimentos = None
  /\ args.altura_total /= None
  /\ parametro.erro = Some(ErroDadosInsuficientes)

(* The class of the error of a setback result computed for zona.           *)
ClasseErroRecuo(p, zona) ==
  CASE p.erro = None -> "sem_erro"
    [] p.erro = Some(ErroDadosInsuficientes) -> "dados_insuficientes"
    [] p.erro = Some(ErroZonaNaoCadastrada(zona)) -> "zona_nao_cadastrada"
    [] OTHER -> "outro"

RecuoDireto(zona, pavimentos, altura_total) ==
  IF op = "recuo_lateral"
  THEN _calcular_recuo_lateral(zona, pavimentos, altura_total, None)
  ELSE _calcular_recuo_fundos(zona, pavimentos, altura_total, None)

(* C10: for a transition zone (ZCT...) with a crossed zone supplied the    *)
(* lateral and rear setback have the value and error class of the crossed  *)
(* zone evaluated directly with the same floors and height; for any other  *)
(* zone the crossed zone changes nothing in the result.                    *)
C10_HerancaDaZonaAtravessada ==
  FeitoRecuoDinamico
    => /\ (/\ StartsWith(Norm(args.zona), ZCT)
           /\ args.zona_atravessada /= None
           /\ args.zona_atravessada[1] /= <<>>)
            => LET direto == RecuoDireto(args.zona_atravessada[1],
                                         args.pavimentos, args.altura_total)
               IN /\ parametro.valor = direto.valor
                  /\ ClasseErroRecuo(parametro, Norm(args.zona))
                       = ClasseErroRecuo(direto,
                                         Norm(args.zona_atravessada[1]))
       /\ ~StartsWith(Norm(args.zona), ZCT)
            => parametro = RecuoDireto(args.zona, args.pavimentos,
                                       args.altura_total)

C10_Witness ==
  /\ Feito("recuo_lateral")
  /\ args.zona = ZCT2
  /\ args.zona_atravessada = Some(ZI2)
  /\ args.pavimentos = Some(3)
  /\ args.altura_total = Some(1500)
  /\ parametro.valor = VStr("2.00 m")

---------------------------------------------------------------------------
(* The catalog tables as the properties state them.                        *)

ZonasAgendaPadrao == {ZC1, ZC2, ZAD1, ZAD2, ZH2, ZH3, ZCT1, ZCT2, ZCT3}

ZonasTabelaTestada == {ZAD1, ZAD2, ZH2, ZH3, ZCT2, ZCT3, ZCT4}

(* The nature as the frontage evaluator compares it: trimmed, lower-cased; *)
(* an absent nature is the empty text.                                     *)
NaturezaComparada(natureza) ==
  IF natureza = None THEN <<>> ELSE Lower(Strip(natureza[1]))

NaoSeAplicaInformado(natureza) == NaturezaComparada(natureza) = nao_se_aplica

(* C11: the frontal setback, with the zone trimmed and upper-cased and the *)
(* use trimmed and compared without regard to case, is 4.0 (residential)   *)
(* or 1.5 (commercial) in the standard schedule and 2.0 or 1.5 in ZEIS; a  *)
(* zone of neither schedule gives 'zone not found' whatever the use, any   *)
(* other use in a scheduled zone gives 'use not recognized', both with     *)
(* absent value.                                                           *)
C11_RecuoFrontalPorZonaEUso ==
  Feito("recuo_frontal")
    => LET zona == Norm(args.zona)
           uso == Lower(Strip(args.tipologia))
       IN IF zona \notin ZonasAgendaPadrao \cup {ZEIS}
          THEN /\ parametro.erro = Some(ErroZonaNaoEncontrada(zona))
               /\ parametro.valor = VNone
          ELSE IF uso = Lower(Residencial)
          THEN /\ parametro.erro = None
               /\ parametro.valor = VFloat(IF zona = ZEIS THEN 200 ELSE 400)
               /\ parametro.unidade = "metros"
          ELSE IF uso = Lower(Comercial)
          THEN /\ parametro.erro = None
               /\ parametro.valor = VFloat(150)
               /\ parametro.unidade = "metros"
          ELSE /\ parametro.erro =
                    Some(ErroUsoNaoReconhecido(zona,
                                               Capitalize(Strip(args.tipologia))))
               /\ parametro.valor = VNone

C11_Witness ==
  /\ Feito("recuo_frontal")
  /\ args.zona = Lower(ZEIS) \o <<"\t">>
  /\ args.tipologia = <<" ">> \o Upper(Residencial) \o <<" ">>
  /\ parametro.valor = VFloat(200)

(* C12: when the nature, trimmed and without regard to case, is "não se    *)
(* aplica", the minimum frontage has an absent value and no error for      *)
(* every zone, also for zones without an entry in the frontage table.      *)
C12_NaoSeAplicaSemErro ==
  (Feito("testada_minima") /\ NaoSeAplicaInformado(args.natureza))
    => /\ parametro.valor = VNone
       /\ parametro.erro = None

C12_Witness ==
  /\ Feito("testada_minima")
  /\ args.zona = <<"Z", "X", "9">>
  /\ args.natureza = Some(<<" ">> \o Upper(nao_se_aplica) \o <<" ">>)
  /\ parametro.erro = None

(* C13: for a nature other than "não se aplica" the minimum frontage is    *)
(* the 'nature required' error when the nature is absent or empty, the     *)
(* table constant without error when (zone, nature) is in the frontage     *)
(* table (10.0 for desmembramento, 15.0 for loteamento e condominio, 12.0  *)
(* for the latter in ZH3), and 'combination not found' with absent value   *)
(* for every other pair.                                                   *)
C13_TestadaPelaTabela ==
  (Feito("testada_minima") /\ ~NaoSeAplicaInformado(args.natureza))
    => LET zona == Norm(args.zona)
           natureza == NaturezaComparada(args.natureza)
       IN IF natureza = <<>>
          THEN /\ parametro.erro = Some(ErroNaturezaNecessaria)
               /\ parametro.valor = VNone
          ELSE IF zona \in ZonasTabelaTestada /\ natureza = desmembramento
          THEN /\ parametro.erro = None
               /\ parametro.valor = VFloat(1000)
          ELSE IF zona \in ZonasTabelaTestada
                    /\ natureza = loteamento_e_condominio
          THEN /\ parametro.erro = None
               /\ parametro.valor = VFloat(IF zona = ZH3 THEN 1200 ELSE 1500)
          ELSE /\ parametro.erro =
                    Some(ErroCombinacaoNaoEncontrada(zona, natureza))
               /\ parametro.valor = VNone

C13_Witness ==
  /\ Feito("testada_minima")
  /\ args.zona = ZH3
  /\ args.natureza = Some(loteamento_e_condominio)
  /\ parametro.valor = VFloat(1200)

ZonaForaDaLista == pc = "feito" /\ op \in Avaliadores
                     /\ Norm(args.zona) \notin ZonasValidas

(* C14: for every zone code outside the enumeration of valid zones each of *)
(* the six evaluators returns a parameter with an error and no value.      *)
C14_TodaZonaForaDaListaRejeitada ==
  ZonaForaDaLista => parametro.erro /= None /\ parametro.valor = VNone

(* C14 as amended: for a zone code outside the enumeration the frontal     *)
(* setback and the maximum height give 'zone not found' with absent value; *)
(* the lateral and rear setback give an error with absent value unless the *)
(* code starts with ZCT and a crossed zone is supplied; the minimum        *)
(* frontage gives an error with absent value unless the nature is "não se  *)
(* aplica", where value and error are both absent; the levy gives          *)
(* "cobrança" without error.                                               *)
C14_ZonaForaDaListaPorAvaliador ==
  ZonaForaDaLista
    => LET zona == Norm(args.zona)
       IN /\ op \in {"recuo_frontal", "altura_maxima"}
               => /\ parametro.erro = Some(ErroZonaNaoEncontrada(zona))
                  /\ parametro.valor = VNone
          /\ (/\ op \in {"recuo_lateral", "recuo_fundos"}
              /\ ~(/\ StartsWith(zona, ZCT)
                   /\ args.zona_atravessada /= None
                   /\ args.zona_atravessada[1] /= <<>>))
               => parametro.erro /= None /\ parametro.valor = VNone
          /\ op = "testada_minima"
               => /\ parametro.valor = VNone
                  /\ parametro.erro = None
                       <=> NaoSeAplicaInformado(args.natureza)
          /\ op = "outorga_onerosa"
               => /\ parametro.valor = VStr("cobrança")
                  /\ parametro.erro = None

C14_Witness ==
  /\ Feito("outorga_onerosa")
  /\ args.zona = <<"Z", "X", "9">>
  /\ args.avenida = Some("Av. Brasil")
  /\ parametro.valor = VStr("cobrança")
  /\ parametro.erro = None

---------------------------------------------------------------------------
(* The field-dependency resolver.                                          *)

Contem(lista, item) == \E i \in DOMAIN lista : lista[i] = item

FeitoZonaENatureza == Feito("get_campos_condicionais_por_zona_e_natureza")

FeitoPorZona == Feito("get_dependencias_por_zona")

FeitoPorNatureza == Feito("validate_campos_por_natureza")

CamposDeLote == {"testada_minima", "area_minima_lote"}

(* The nature "não se aplica" as a caller may spell it: padded, any case.  *)
NaturezaNaoSeAplica(natureza) == Lower(Strip(natureza)) = nao_se_aplica

(* C16: for the nature "não se aplica", under every zone, no resolver      *)
(* method lists testada_minima or area_minima_lote as mandatory, and the   *)
(* conditional entries the zone-only method gives for these two fields are *)
(* never gated on that nature.                                             *)
C16_NaoSeAplicaNuncaObrigatorio ==
  /\ (FeitoZonaENatureza \/ FeitoPorNatureza)
       /\ NaturezaNaoSeAplica(args.natureza)
       => \A campo \in CamposDeLote :
            ~Contem(resposta.campos_obrigatorios, campo)
  /\ FeitoPorZona
       => /\ \A campo \in CamposDeLote :
               ~Contem(resposta.campos_obrigatorios, campo)
          /\ \A i \in DOMAIN resposta.campos_condicionais :
               LET c == resposta.campos_condicionais[i]
               IN c.chave \in CamposDeLote
                    => \A n \in c.campo.naturezas_validas :
                         ~NaturezaNaoSeAplica(n)

C16_Witness ==
  /\ FeitoZonaENatureza
  /\ Norm(args.zona) = ZH3
  /\ args.natureza = <<" ">> \o NaoSeAplica \o <<" ">>
  /\ ~Contem(resposta.campos_obrigatorios, "testada_minima")
  /\ ~Contem(resposta.campos_visiveis, "area_minima_lote")

(* C17: for the nature "Não se aplica", under every zone, the zone+nature  *)
(* method lists both testada_minima and area_minima_lote in campos_ocultos.*)
C17_NaoSeAplicaOcultaAmbos ==
  (/\ FeitoZonaENatureza
   /\ Norm(args.zona) \in ZonasValidas
   /\ Strip(args.natureza) = NaoSeAplica)
    => \A campo \in CamposDeLote : Contem(resposta.campos_ocultos, campo)

Itens(lista) == {lista[i] : i \in DOMAIN lista}

(* The conditional entry a zone-only answer holds for a field, if any.     *)
CondicionaisDe(resp, campo) ==
  { resp.campos_condicionais[i].campo :
      i \in { j \in DOMAIN resp.campos_condicionais :
                resp.campos_condicionais[j].chave = campo } }

(* The avenues the resolver offers for a zone.                             *)
OpcoesOferecidas(zona) ==
  UNION { Itens(c.opcoes) :
            c \in CondicionaisDe(
                    get_dependencias_por_zona(validacao_zone_service, zona),
                    "avenida") }

(* C18: the resolver lists avenida as mandatory, with a non-empty option   *)
(* list, exactly when the zone is ZCT2 or ZCT4; and every avenue of that   *)
(* list, given for ZCT2 or ZCT4, makes the maximum height and the levy     *)
(* "livre".                                                                *)
C18_AvenidaObrigatoriaEOpcoesLivres ==
  /\ FeitoPorZona
       => LET exige == Norm(args.zona) \in {ZCT2, ZCT4}
              entradas == CondicionaisDe(resposta, "avenida")
          IN /\ Contem(resposta.campos_obrigatorios, "avenida") <=> exige
             /\ entradas /= {} <=> exige
             /\ \A c \in entradas : c.obrigatorio /\ c.opcoes /= <<>>
  /\ FeitoZonaENatureza
       => (Contem(resposta.campos_obrigatorios, "avenida")
             <=> Norm(args.zona) \in {ZCT2, ZCT4})
  /\ (/\ Feito("altura_maxima") \/ Feito("outorga_onerosa")
      /\ Norm(args.zona) \in {ZCT2, ZCT4}
      /\ args.avenida /= None
      /\ args.avenida[1] \in OpcoesOferecidas(Norm(args.zona)))
       => parametro.valor = VStr("livre") /\ parametro.erro = None

C18_Witness ==
  /\ Feito("altura_maxima")
  /\ args.zona = ZCT4
  /\ args.avenida = Some("Av. Joao Natalino Brescansin")
  /\ args.avenida[1] \in OpcoesOferecidas(ZCT4)
  /\ Cardinality(OpcoesOferecidas(ZCT4)) = 6
  /\ parametro.valor = VStr("livre")

MensagemRecuosDinamicos ==
  "⚠ Pavimentos e altura são obrigatórios para cálculo de "
    \o "recuos laterais e de fundos"

(* The lateral and rear evaluators, given the zone with floors and height  *)
(* supplied and no crossed zone, return a value.                           *)
AvaliadorDaValor(zona) ==
  \A p \in PavimentosEntrada, a \in AlturasEntrada :
    (p /= None /\ p[1] /= 0 /\ a /= None /\ a[1] /= 0)
      => /\ _calcular_recuo_lateral(zona, p, a, None).valor /= VNone
         /\ _calcular_recuo_fundos(zona, p, a, None).valor /= VNone

(* C19: the resolver adds pavimentos and altura_total to the mandatory     *)
(* fields, with the advisory message, exactly for the zones for which the  *)
(* lateral and rear evaluators, with floors and height supplied and no     *)
(* crossed zone, return a value.                                           *)
C19_RecuosDinamicosSseAvaliadorDaValor ==
  FeitoPorZona
    => LET exige == /\ Contem(resposta.campos_obrigatorios, "pavimentos")
                    /\ Contem(resposta.campos_obrigatorios, "altura_total")
                    /\ Contem(resposta.mensagens, MensagemRecuosDinamicos)
       IN exige <=> AvaliadorDaValor(args.zona)

(* The zone has an entry in the frontage table of the evaluator.           *)
TemEntradaNaTabelaDeTestada(zona) ==
  \E natureza \in {desmembramento, loteamento_e_condominio} :
    regras(zona, natureza) /= None

NaturezasDeParcelamento == {Desmembramento, LoteamentoECondominio}

(* C20: the zone-only method gives testada_minima a conditional entry,     *)
(* gated on the natures Desmembramento and Loteamento e Condomínio,        *)
(* exactly for the zones with an entry in the frontage table; the          *)
(* zone+nature method lists testada_minima as mandatory exactly when the   *)
(* zone is in the table and the nature is one of those two.                *)
C20_TestadaCondicionalPelaTabela ==
  /\ FeitoPorZona
       => LET entradas == CondicionaisDe(resposta, "testada_minima")
          IN /\ entradas /= {} <=> TemEntradaNaTabelaDeTestada(Norm(args.zona))
             /\ \A c \in entradas :
                  /\ c.obrigatorio_por_natureza
                  /\ c.naturezas_validas = NaturezasDeParcelamento
  /\ FeitoZonaENatureza
       => (Contem(resposta.campos_obrigatorios, "testada_minima")
             <=> /\ TemEntradaNaTabelaDeTestada(Norm(args.zona))
                 /\ Strip(args.natureza) \in NaturezasDeParcelamento)

C20_Witness ==
  /\ FeitoZonaENatureza
  /\ args.zona = ZH3
  /\ args.natureza = Desmembramento \o <<" ">>
  /\ Contem(resposta.campos_obrigatorios, "testada_minima")

---------------------------------------------------------------------------
(* Concurrent calls on the shared instances.                               *)

Avaliada(c) == chamadas[c].pc \in {"avaliou", "retornou"}

(* The result of the same call made alone on freshly built instances.      *)
ResultadoSozinha(c) ==
  Resultado(ValidacaoZoneService, chamadas[c].op, chamadas[c].args)

---------------------------------------------------------------------------
(* The natures of architectural and urbanistic projects.                   *)

CamposArquitetonico == <<"pavimentos", "altura_total", "area_construida">>

CamposUrbanistico == <<"area_construida">>

(* C21 as stated: for Arquitetonico the mandatory fields are pavimentos,   *)
(* altura_total and area_construida, for Urbanistico area_construida only, *)
(* in every zone.                                                          *)
C21_ObrigatoriosSoPelaNatureza ==
  /\ (FeitoPorNatureza \/ FeitoZonaENatureza) /\ args.natureza = Arquitetonico
       => resposta.campos_obrigatorios = CamposArquitetonico
  /\ (FeitoPorNatureza \/ FeitoZonaENatureza) /\ args.natureza = Urbanistico
       => resposta.campos_obrigatorios = CamposUrbanistico

(* C21: for Arquitetonico the mandatory fields are pavimentos,             *)
(* altura_total and area_construida, for Urbanistico area_construida only; *)
(* the zone+nature method trims the nature and, for the zones ZCT2 and     *)
(* ZCT4 only, lists avenida after them.                                    *)
C21_ObrigatoriosPelaNaturezaEAvenida ==
  /\ FeitoPorNatureza
       => /\ args.natureza = Arquitetonico
               => resposta.campos_obrigatorios = CamposArquitetonico
          /\ args.natureza = Urbanistico
               => resposta.campos_obrigatorios = CamposUrbanistico
  /\ FeitoZonaENatureza
       => LET avenida == IF Norm(args.zona) \in {ZCT2, ZCT4}
                         THEN <<"avenida">> ELSE <<>>
          IN /\ Strip(args.natureza) = Arquitetonico
                  => resposta.campos_obrigatorios
                       = CamposArquitetonico \o avenida
             /\ Strip(args.natureza) = Urbanistico
                  => resposta.campos_obrigatorios
                       = CamposUrbanistico \o avenida

C21_Witness ==
  /\ FeitoZonaENatureza
  /\ args.zona = ZCT4
  /\ args.natureza = <<" ">> \o Urbanistico
  /\ resposta.campos_obrigatorios = <<"area_construida", "avenida">>

---------------------------------------------------------------------------
(* Lateral and rear setbacks side by side.                                 *)

(* The two parameters agree in everything but the name.                    *)
IguaisSalvoNome(p, q) ==
  /\ p.valor = q.valor
  /\ p.unidade = q.unidade
  /\ p.dependencias = q.dependencias
  /\ p.erro = q.erro
  /\ p.regra_aplicada = q.regra_aplicada

(* C23: for every zone, floor count, height and crossed zone the lateral   *)
(* and the rear setback have the same value, unit, dependency list, error  *)
(* and rule wording, and carry their own parameter names.                  *)
C23_LateralIgualAFundos ==
  /\ Feito("recuo_lateral")
       => LET fundos == _calcular_recuo_fundos(args.zona, args.pavimentos,
                          args.altura_total, args.zona_atravessada)
          IN /\ IguaisSalvoNome(parametro, fundos)
             /\ parametro.nome = "recuo_lateral"
             /\ fundos.nome = "recuo_fundos"
  /\ Feito("recuo_fundos")
       => LET lateral == _calcular_recuo_lateral(args.zona, args.pavimentos,
                           args.altura_total, args.zona_atravessada)
          IN /\ IguaisSalvoNome(parametro, lateral)
             /\ parametro.nome = "recuo_fundos"
             /\ lateral.nome = "recuo_lateral"

C23_Witness ==
  /\ Feito("recuo_lateral")
  /\ args.zona = ZCT2
  /\ args.zona_atravessada = Some(<<" ">> \o Lower(ZH3))
  /\ args.pavimentos = Some(3)
  /\ args.altura_total = Some(2000)
  /\ parametro.valor = VStr("2.00 m")
  /\ _calcular_recuo_fundos(args.zona, args.pavimentos, args.altura_total,
                            args.zona_atravessada).valor = VStr("2.00 m")

---------------------------------------------------------------------------
(* The dependency list as a statement of what the result depends on.       *)

FeitoAvaliador == pc = "feito" /\ op \in Avaliadores

(* The values an argument may take in a second call: its own value if the  *)
(* dependency list names the field, any value otherwise.                   *)
Livre(deps, campo, atual, conjunto) ==
  IF Contem(deps, campo) THEN {atual} ELSE conjunto

(* The argument records that differ from a only in fields that deps does   *)
(* not name.                                                               *)
ArgumentosCompativeis(nome, a, deps) ==
  CASE nome = "recuo_frontal" ->
         { [zona |-> z, tipologia |-> t] :
             z \in Livre(deps, "zona", a.zona, ZonasEntrada),
             t \in Livre(deps, "tipologia", a.tipologia, TipologiasEntrada) }
    [] nome \in {"recuo_lateral", "recuo_fundos"} ->
         { [zona |-> z, pavimentos |-> p, altura_total |-> h,
            zona_atravessada |-> za] :
             z \in Livre(deps, "zona", a.zona, ZonasEntrada),
             p \in Livre(deps, "pavimentos", a.pavimentos, PavimentosEntrada),
             h \in Livre(deps, "altura_total", a.altura_total,
                         AlturasEntrada),
             za \in Livre(deps, "zona_atravessada", a.zona_atravessada,
                          ZonasAtravessadasEntrada) }
    [] nome = "testada_minima" ->
         { [zona |-> z, natureza |-> n] :
             z \in Livre(deps, "zona", a.zona, ZonasEntrada),
             n \in Livre(deps, "natureza", a.natureza, NaturezasEntrada) }
    [] nome \in {"altura_maxima", "outorga_onerosa"} ->
         { [zona |-> z, avenida |-> av] :
             z \in Livre(deps, "zona", a.zona, ZonasEntrada),
             av \in Livre(deps, "avenida", a.avenida, AvenidasEntrada) }

(* C24: the result of an evaluator is the same, in value and in error, for *)
(* every other input that differs from the one given only in fields its    *)
(* dependencias list does not name.                                        *)
C24_DependenciasDeterminamResultado ==
  FeitoAvaliador
    => \A b \in ArgumentosCompativeis(op, args, parametro.dependencias) :
         LET outro == Resultado(validacao_zone_service, op, b)
         IN outro.valor = parametro.valor /\ outro.erro = parametro.erro

---------------------------------------------------------------------------
(* The natures of the resolver handed to the frontage evaluator.           *)

(* C25: for every zone of the frontage table and every nature the resolver *)
(* declares as requiring the minimum frontage, spelled as the resolver     *)
(* spells it, the frontage evaluator returns a number and no error.        *)
C25_NaturezasDoResolverTemTestada ==
  (/\ Feito("testada_minima")
   /\ TemEntradaNaTabelaDeTestada(Norm(args.zona))
   /\ args.natureza /= None
   /\ args.natureza[1] \in validacao_zone_service.naturezas_com_testada)
    => /\ parametro.erro = None
       /\ parametro.valor.tipo = "float"

---------------------------------------------------------------------------
(* Height and levy side by side.                                           *)

EhLivre(p) == p.valor = VStr("livre")

(* C26: whenever the levy is "livre" the maximum height for the same zone  *)
(* and avenue is "livre"; for ZCT2 or ZCT4 with an avenue given the height *)
(* is "livre" exactly when the levy is.                                    *)
C26_AlturaEOutorgaConcordam ==
  /\ Feito("outorga_onerosa")
       => LET altura == _calcular_altura_maxima(args.zona, args.avenida)
          IN /\ EhLivre(parametro) => EhLivre(altura)
             /\ (Norm(args.zona) \in {ZCT2, ZCT4}
                   /\ AvenidaInformada(args.avenida))
                  => (EhLivre(altura) <=> EhLivre(parametro))
  /\ Feito("altura_maxima")
       => LET outorga == _calcular_outorga_onerosa(args.zona, args.avenida)
          IN /\ EhLivre(outorga) => EhLivre(parametro)
             /\ (Norm(args.zona) \in {ZCT2, ZCT4}
                   /\ AvenidaInformada(args.avenida))
                  => (EhLivre(parametro) <=> EhLivre(outorga))

C26_Witness ==
  /\ Feito("outorga_onerosa")
  /\ args.zona = ZCT4
  /\ args.avenida = Some("Av. Tancredo Neves")
  /\ EhLivre(parametro)
  /\ EhLivre(_calcular_altura_maxima(args.zona, args.avenida))


(***************************************************************************)
(* Parcels (models/formulario_terrenos_projetos.py and                     *)
(* repositories/formulario_terrenos_repo.py).  A parcel keeps the fields   *)
(* the repositories read: cod_projeto, norte_verdadeiro, zona, municipio   *)
(* and updated_at.  norte_verdadeiro is counted in thousandths of a        *)
(* degree, so 12.345 is 12345 and a value has at most two decimals exactly *)
(* when it is a multiple of 10.  An ObjectId is a positive number in       *)
(* insertion order; 0 stands for a string that is not a valid ObjectId.    *)
(***************************************************************************)
MaxTerrenos == 1

(* round(v, 2): to the nearest hundredth; on a tie Python follows the      *)
(* binary expansion of v, here the even neighbour, and either neighbour    *)
(* differs from v.                                                         *)
Round2(v) ==
  LET r == v % 10
      base == v - r
  IN  IF r < 5 THEN base
      ELSE IF r > 5 THEN base + 10
      ELSE IF (base \div 10) % 2 = 0 THEN base ELSE base + 10

Valido(v) == [ok |-> TRUE, valor |-> v]

Invalido(mensagem) == [ok |-> FALSE, erro |-> mensagem]

(* Field(..., ge=0, lt=360)                                                *)
CampoNorteVerdadeiro(v) ==
  IF v >= 0 /\ v < 360000
  THEN Valido(v)
  ELSE Invalido("Input should be greater than or equal to 0 and less than 360")

validate_norte_verdadeiro(v) ==
  IF v < 0 \/ v >= 360000
  THEN Invalido("Norte verdadeiro deve estar entre 0 e 360 graus")
  ELSE IF Round2(v) /= v
  THEN Invalido("Norte verdadeiro deve ter no máximo 2 casas decimais")
  ELSE Valido(v)

zonas_validas ==
  { ZAD1, ZAD2, ZC1, ZC2, ZCT1, ZCT2, ZCT3, ZCT4, ZEIS, ZH1, ZH2, ZH3,
    ZHL, ZI1, ZI2, ZIA1, ZIA2, ZII }

validate_zona(v) ==
  IF v \notin zonas_validas
  THEN Invalido("Zona deve ser uma das seguintes")
  ELSE Valido(v)

(* The fields every parcel model built on the base validates: the Field    *)
(* constraint of norte_verdadeiro, then its validator, the zone validator, *)
(* and the upper-casing of municipio.                                      *)
FormularioTerrenosProjetosBase(campos) ==
  LET campo == CampoNorteVerdadeiro(campos.norte_verdadeiro)
      norte == validate_norte_verdadeiro(campos.norte_verdadeiro)
      zona == validate_zona(campos.zona)
  IN  IF ~campo.ok THEN campo
      ELSE IF ~norte.ok THEN norte
      ELSE IF ~zona.ok THEN zona
      ELSE Valido([campos EXCEPT !.municipio = Upper(campos.municipio)])

FormularioTerrenosProjetosCreate(campos) ==
  FormularioTerrenosProjetosBase(campos)

(* The update model declares its own fields: norte_verdadeiro keeps the    *)
(* Field constraint, and no validator of the base is attached to it.       *)
FormularioTerrenosProjetosUpdate(campos) ==
  IF campos.norte_verdadeiro = None THEN Valido(campos)
  ELSE IF ~CampoNorteVerdadeiro(campos.norte_verdadeiro[1]).ok
  THEN CampoNorteVerdadeiro(campos.norte_verdadeiro[1])
  ELSE Valido(campos)

(* A read builds FormularioTerrenosProjetosInDB from the stored document,  *)
(* which validates its fields with the validators of the base again.       *)
FormularioTerrenosProjetosInDB(documento) ==
  FormularioTerrenosProjetosBase(documento)

(* collection.find_one({"_id": ObjectId(id)}) on a collection kept in      *)
(* insertion order: the document, or None.                                 *)
FindOneById(colecao, id) ==
  IF \E i \in DOMAIN colecao : colecao[i].id = id
  THEN Some(colecao[CHOOSE i \in DOMAIN colecao : colecao[i].id = id])
  ELSE None

ObjectIdIsValid(id) == id /= 0

Retornou(nome, valor) == [op |-> nome, excecao |-> None, valor |-> valor]

Levantou(nome, tipo) == [op |-> nome, excecao |-> Some(tipo), valor |-> None]

RetornouDe(nome, argumentos, valor) ==
  [op |-> nome, args |-> argumentos, excecao |-> None, valor |-> valor]


(***************************************************************************)
(* Stored urban parameters (repositories/parametros_urbanisticos_repo.py). *)
(* A stored record keeps terreno_id, municipio, legislacao, status and the *)
(* calculated parameters.  Every write stamps updated_at with              *)
(* datetime.now(), which differs from the stored stamp, so a write that    *)
(* matches a document always modifies it; the stamp itself is left out.    *)
(***************************************************************************)
MaxParametros == 2

(* ParametrosUrbanisticosCreate: status defaults to "ativo".               *)
ParametrosUrbanisticosCreate(terreno_id, municipio, legislacao, status, calculados) ==
  [terreno_id |-> terreno_id, municipio |-> municipio,
   legislacao |-> legislacao,
   status |-> IF status = None THEN "ativo" ELSE status[1],
   parametros |-> calculados]

create_parametros(colecao, parametros_data) ==
  LET documento ==
        [id |-> Len(colecao) + 1,
         terreno_id |-> parametros_data.terreno_id,
         municipio |-> parametros_data.municipio,
         legislacao |-> parametros_data.legislacao,
         status |-> parametros_data.status,
         parametros |-> parametros_data.parametros]
  IN  [colecao |-> Append(colecao, documento), valor |-> documento]

(* collection.find(filter) is SelectSeq on a collection kept in insertion  *)
(* order; find_one gives the first match, or None.                         *)
Primeiro(encontrados) ==
  IF encontrados = <<>> THEN None ELSE Some(Head(encontrados))

get_parametros_by_terreno_id(colecao, terreno_id) ==
  IF ~ObjectIdIsValid(terreno_id) THEN None
  ELSE LET Filtro(d) == d.terreno_id = terreno_id /\ d.status = "ativo"
       IN  Primeiro(SelectSeq(colecao, Filtro))

(***************************************************************************)
(* repositories/formulario_terrenos_repo.py                                *)
(***************************************************************************)
(* Builds the calculation input from the parcel, calculates, and stores    *)
(* the record; any exception is logged and raised again.  The result is    *)
(* the exception, if any, and the parameter collection afterwards.         *)
_calcular_parametros_urbanisticos(colecao, terreno) ==
  IF ~HasAttr(terreno, "tipologia")
  THEN [excecao |-> Some("AttributeError"), colecao |-> colecao]
  ELSE
    LET dados_calculo ==
          [DadosCalculoParametros(terreno.zona, terreno.tipologia, None, None, None, None, None)
             EXCEPT !.municipio = terreno.municipio]
        parametros_calculados == calcular_todos_parametros(dados_calculo)
    IN  IF parametros_calculados.excecao /= None
        THEN [excecao |-> parametros_calculados.excecao, colecao |-> colecao]
        ELSE [excecao |-> None,
              colecao |->
                create_parametros(colecao,
                  ParametrosUrbanisticosCreate(terreno.id, terreno.municipio,
                    "LC_108_2009_ALTERADA_LC_415_2023", None,
                    parametros_calculados.parametros)).colecao]

(* Inserts the parcel, reads it back, and calculates its parameters; an    *)
(* exception of the calculation is logged as a warning and the parcel is   *)
(* returned all the same.                                                  *)
create_terreno(colecao, colecao_parametros, terreno_data) ==
  LET documento ==
        [id |-> Len(colecao) + 1,
         cod_projeto |-> terreno_data.cod_projeto,
         norte_verdadeiro |-> terreno_data.norte_verdadeiro,
         zona |-> terreno_data.zona,
         municipio |-> terreno_data.municipio,
         updated_at |-> Some("datetime")]
      terreno_obj == FormularioTerrenosProjetosInDB(documento)
      calculo == _calcular_parametros_urbanisticos(colecao_parametros, documento)
  IN  IF ~terreno_obj.ok
      THEN [terrenos |-> Append(colecao, documento),
            param_urb_terrenos |-> colecao_parametros,
            retorno |-> Levantou("create_terreno", "ValidationError")]
      ELSE [terrenos |-> Append(colecao, documento),
            param_urb_terrenos |-> calculo.colecao,
            retorno |-> Retornou("create_terreno", terreno_obj.valor)]

get_terreno_by_id(colecao, terreno_id) ==
  IF ~ObjectIdIsValid(terreno_id) THEN Retornou("get_terreno_by_id", None)
  ELSE LET terreno == FindOneById(colecao, terreno_id)
       IN  IF terreno = None THEN Retornou("get_terreno_by_id", None)
           ELSE IF ~FormularioTerrenosProjetosInDB(terreno[1]).ok
           THEN Levantou("get_terreno_by_id", "ValidationError")
           ELSE Retornou("get_terreno_by_id",
                         Some(FormularioTerrenosProjetosInDB(terreno[1]).valor))

(* $set of the fields that are not None, and of updated_at, which the      *)
(* code sets to update_data.get("updated_at"), that is None.               *)
SetTerreno(documento, terreno_data) ==
  [documento EXCEPT !.norte_verdadeiro = terreno_data.norte_verdadeiro[1],
                    !.updated_at = None]

update_terreno(colecao, terreno_id, terreno_data) ==
  IF ~ObjectIdIsValid(terreno_id)
  THEN [terrenos |-> colecao, retorno |-> Retornou("update_terreno", None)]
  ELSE IF terreno_data.norte_verdadeiro = None
  THEN [terrenos |-> colecao,
        retorno |-> [get_terreno_by_id(colecao, terreno_id)
                       EXCEPT !.op = "update_terreno"]]
  ELSE
    LET depois ==
          [i \in DOMAIN colecao |->
             IF colecao[i].id = terreno_id
             THEN SetTerreno(colecao[i], terreno_data)
             ELSE colecao[i]]
        modified_count == IF depois /= colecao THEN 1 ELSE 0
    IN  [terrenos |-> depois,
         retorno |->
           IF modified_count /= 0
           THEN [get_terreno_by_id(depois, terreno_id)
                   EXCEPT !.op = "update_terreno"]
           ELSE Retornou("update_terreno", None)]


(***************************************************************************)
(* Requests on parcels.  Each action is one repository call with its       *)
(* request model built first, as the router does.                          *)
(***************************************************************************)
varsAvaliacao ==
  <<pc, op, args, parametro, parametros, excecao, resposta,
    validacao_zone_service, parametros_service, chamadas>>

Sorriso == <<"S", "o", "r", "r", "i", "s", "o">>

(* -0.01, 12.34, 12.345, 359.999 and 360 degrees                           *)
NortesEntrada == {-10, 12340, 12345, 359999, 360000}

ZonasTerreno == {ZC1, ZCT2, <<"z", "c", "1">>}

CodigosTerreno == {None, Some("ABC1234")}

IdsTerreno == 0 .. MaxTerrenos

CreateTerreno ==
  /\ Len(terrenos) < MaxTerrenos
  /\ \E cod \in CodigosTerreno, norte \in NortesEntrada, zona \in ZonasTerreno :
       LET terreno_data ==
             FormularioTerrenosProjetosCreate(
               [cod_projeto |-> cod, norte_verdadeiro |-> norte,
                zona |-> zona, municipio |-> Sorriso])
           criado == create_terreno(terrenos, param_urb_terrenos, terreno_data.valor)
       IN  IF ~terreno_data.ok
           THEN /\ retorno' = Levantou("create_terreno", "ValidationError")
                /\ UNCHANGED <<terrenos, param_urb_terrenos>>
           ELSE /\ terrenos' = criado.terrenos
                /\ param_urb_terrenos' = criado.param_urb_terrenos
                /\ retorno' = criado.retorno
  /\ UNCHANGED <<varsAvaliacao, projetos, criadores>>

UpdateTerreno ==
  /\ \E terreno_id \in IdsTerreno, norte \in {None} \cup {Some(v) : v \in NortesEntrada} :
       LET terreno_data ==
             FormularioTerrenosProjetosUpdate([norte_verdadeiro |-> norte])
           atualizado == update_terreno(terrenos, terreno_id, terreno_data.valor)
       IN  IF ~terreno_data.ok
           THEN /\ retorno' = Levantou("update_terreno", "ValidationError")
                /\ UNCHANGED terrenos
           ELSE /\ terrenos' = atualizado.terrenos
                /\ retorno' = atualizado.retorno
  /\ UNCHANGED <<varsAvaliacao, param_urb_terrenos, projetos, criadores>>

GetTerrenoById ==
  /\ \E terreno_id \in IdsTerreno :
       retorno' = get_terreno_by_id(terrenos, terreno_id)
  /\ UNCHANGED <<varsAvaliacao, terrenos, param_urb_terrenos, projetos, criadores>>

GetParametrosByTerrenoId ==
  /\ \E terreno_id \in IdsTerreno :
       retorno' = RetornouDe("get_parametros_by_terreno_id",
                    [terreno_id |-> terreno_id],
                    get_parametros_by_terreno_id(param_urb_terrenos, terreno_id))
  /\ UNCHANGED <<varsAvaliacao, terrenos, param_urb_terrenos, projetos, criadores>>

NextTerrenos ==
  \/ CreateTerreno
  \/ UpdateTerreno
  \/ GetTerrenoById
  \/ GetParametrosByTerrenoId

SpecTerrenos == Init /\ [][NextTerrenos]_vars

(***************************************************************************)
(* C22: a parcel's norte_verdadeiro is accepted only if 0 <= v < 360 and   *)
(* rounding it to two decimals leaves it unchanged, on create and on       *)
(* update alike, so no stored parcel ever holds a value outside the range  *)
(* or with more than two decimals.                                         *)
(***************************************************************************)
C22_NorteArmazenadoComDuasCasas ==
  \A i \in DOMAIN terrenos :
    /\ terrenos[i].norte_verdadeiro >= 0
    /\ terrenos[i].norte_verdadeiro < 360000
    /\ Round2(terrenos[i].norte_verdadeiro) = terrenos[i].norte_verdadeiro

(***************************************************************************)
(* C27: after create_terreno has returned a parcel, an active parameter    *)
(* record of that parcel is stored: get_parametros_by_terreno_id with the  *)
(* parcel's id returns a record.                                           *)
(***************************************************************************)
C27_TerrenoCriadoTemParametros ==
  (retorno.op = "create_terreno" /\ retorno.excecao = None)
    => get_parametros_by_terreno_id(param_urb_terrenos, retorno.valor.id) /= None


(***************************************************************************)
(* The other operations of the parameter repository.  A list query sorts   *)
(* by created_at descending, which is the reverse of insertion order, and  *)
(* then applies skip and limit.                                            *)
(***************************************************************************)
Reverse(seq) == [i \in 1 .. Len(seq) |-> seq[Len(seq) + 1 - i]]

Pagina(seq, skip, limit) ==
  SubSeq(seq, skip + 1, IF Len(seq) < skip + limit THEN Len(seq) ELSE skip + limit)

get_parametros_by_id(colecao, parametros_id) ==
  IF ~ObjectIdIsValid(parametros_id) THEN None
  ELSE FindOneById(colecao, parametros_id)

get_all_parametros(colecao, skip, limit) ==
  LET Filtro(d) == d.status = "ativo"
  IN  Pagina(Reverse(SelectSeq(colecao, Filtro)), skip, limit)

(* ParametrosUrbanisticosUpdate: of its optional fields the model keeps    *)
(* status; $set writes the fields that are not None.                       *)
update_parametros(colecao, parametros_id, parametros_data) ==
  IF ~ObjectIdIsValid(parametros_id)
  THEN [colecao |-> colecao, valor |-> None]
  ELSE IF parametros_data.status = None
  THEN [colecao |-> colecao, valor |-> get_parametros_by_id(colecao, parametros_id)]
  ELSE
    LET depois ==
          [i \in DOMAIN colecao |->
             IF colecao[i].id = parametros_id
             THEN [colecao[i] EXCEPT !.status = parametros_data.status[1]]
             ELSE colecao[i]]
        modified_count ==
          IF \E i \in DOMAIN colecao : colecao[i].id = parametros_id
          THEN 1 ELSE 0
    IN  [colecao |-> depois,
         valor |-> IF modified_count /= 0
                   THEN get_parametros_by_id(depois, parametros_id)
                   ELSE None]

delete_parametros_RemoveDocumento(colecao, parametros_id) ==
  IF ~ObjectIdIsValid(parametros_id)
  THEN [colecao |-> colecao, valor |-> FALSE]
  ELSE
    LET Outros(d) == d.id /= parametros_id
    IN  [colecao |-> SelectSeq(colecao, Outros),
         valor |-> \E i \in DOMAIN colecao : colecao[i].id = parametros_id]

delete_parametros(colecao, parametros_id) ==
  IF ~ObjectIdIsValid(parametros_id)
  THEN [colecao |-> colecao, valor |-> FALSE]
  ELSE
    LET depois ==
          [i \in DOMAIN colecao |->
             IF colecao[i].id = parametros_id
             THEN [colecao[i] EXCEPT !.status = "inativo"]
             ELSE colecao[i]]
        modified_count ==
          IF \E i \in DOMAIN colecao : colecao[i].id = parametros_id
          THEN 1 ELSE 0
    IN  [colecao |-> depois, valor |-> modified_count > 0]

count_parametros(colecao) ==
  LET Filtro(d) == d.status = "ativo"
  IN  Len(SelectSeq(colecao, Filtro))

search_parametros_by_municipio(colecao, municipio, skip, limit) ==
  LET Filtro(d) == d.municipio = Upper(municipio) /\ d.status = "ativo"
  IN  Pagina(Reverse(SelectSeq(colecao, Filtro)), skip, limit)

(* $lookup joins each record with the parcels whose _id is its terreno_id; *)
(* $match keeps the active records with a joined parcel of the zone.       *)
get_parametros_by_zona(colecao, colecao_terrenos, zona, skip, limit) ==
  LET Filtro(d) ==
        /\ \E i \in DOMAIN colecao_terrenos :
             /\ colecao_terrenos[i].id = d.terreno_id
             /\ colecao_terrenos[i].zona = Upper(zona)
        /\ d.status = "ativo"
  IN  Pagina(Reverse(SelectSeq(colecao, Filtro)), skip, limit)


(***************************************************************************)
(* Requests on stored parameters (routers/parametros_urbanisticos.py).     *)
(***************************************************************************)
IdsParametros == 0 .. MaxParametros

MunicipiosEntrada == {Sorriso, Upper(Sorriso)}

(* The municipality of a record the repository creates is the parcel's,    *)
(* which the parcel model has upper-cased.                                 *)
MunicipiosArmazenados == {Upper(Sorriso)}

StatusEntrada == {None, Some("ativo")}

SkipsEntrada == {0, 1}

LimitesEntrada == {1, 100}

varsOutros == <<varsAvaliacao, projetos, criadores>>

CreateParametros ==
  /\ Len(param_urb_terrenos) < MaxParametros
  /\ \E terreno_id \in IdsTerreno, municipio \in MunicipiosArmazenados :
       IF ~ObjectIdIsValid(terreno_id)
       THEN /\ retorno' = Levantou("create_parametros", "ValidationError")
            /\ UNCHANGED param_urb_terrenos
       ELSE LET criado ==
                  create_parametros(param_urb_terrenos,
                    ParametrosUrbanisticosCreate(terreno_id, municipio,
                      "LC_108_2009_ALTERADA_LC_415_2023", None, <<>>))
            IN  /\ param_urb_terrenos' = criado.colecao
                /\ retorno' = Retornou("create_parametros", criado.valor)
  /\ UNCHANGED <<varsOutros, terrenos>>

GetParametrosById ==
  /\ \E parametros_id \in IdsParametros :
       retorno' = RetornouDe("get_parametros_by_id", [id |-> parametros_id],
                    get_parametros_by_id(param_urb_terrenos, parametros_id))
  /\ UNCHANGED <<varsOutros, terrenos, param_urb_terrenos>>

GetAllParametros ==
  /\ \E skip \in SkipsEntrada, limit \in LimitesEntrada :
       retorno' = RetornouDe("get_all_parametros", [skip |-> skip, limit |-> limit],
                    get_all_parametros(param_urb_terrenos, skip, limit))
  /\ UNCHANGED <<varsOutros, terrenos, param_urb_terrenos>>

UpdateParametros ==
  /\ \E parametros_id \in IdsParametros, status \in StatusEntrada :
       LET atualizado ==
             update_parametros(param_urb_terrenos, parametros_id, [status |-> status])
       IN  /\ param_urb_terrenos' = atualizado.colecao
           /\ retorno' = RetornouDe("update_parametros",
                           [id |-> parametros_id, status |-> status],
                           atualizado.valor)
  /\ UNCHANGED <<varsOutros, terrenos>>

DeleteParametros ==
  /\ \E parametros_id \in IdsParametros :
       LET apagado == delete_parametros(param_urb_terrenos, parametros_id)
       IN  /\ param_urb_terrenos' = apagado.colecao
           /\ retorno' = RetornouDe("delete_parametros", [id |-> parametros_id],
                           apagado.valor)
  /\ UNCHANGED <<varsOutros, terrenos>>

CountParametros ==
  /\ retorno' = RetornouDe("count_parametros", <<>>,
                  count_parametros(param_urb_terrenos))
  /\ UNCHANGED <<varsOutros, terrenos, param_urb_terrenos>>

SearchParametrosByMunicipio ==
  /\ \E municipio \in MunicipiosEntrada, skip \in SkipsEntrada, limit \in LimitesEntrada :
       retorno' = RetornouDe("search_parametros_by_municipio",
                    [municipio |-> municipio, skip |-> skip, limit |-> limit],
                    search_parametros_by_municipio(param_urb_terrenos, municipio, skip, limit))
  /\ UNCHANGED <<varsOutros, terrenos, param_urb_terrenos>>

GetParametrosByZona ==
  /\ \E zona \in ZonasTerreno, skip \in SkipsEntrada, limit \in LimitesEntrada :
       retorno' = RetornouDe("get_parametros_by_zona",
                    [zona |-> zona, skip |-> skip, limit |-> limit],
                    get_parametros_by_zona(param_urb_terrenos, terrenos, zona, skip, limit))
  /\ UNCHANGED <<varsOutros, terrenos, param_urb_terrenos>>

NextParametros ==
  \/ CreateTerreno
  \/ CreateParametros
  \/ GetParametrosByTerrenoId
  \/ GetParametrosById
  \/ GetAllParametros
  \/ UpdateParametros
  \/ DeleteParametros
  \/ CountParametros
  \/ SearchParametrosByMunicipio
  \/ GetParametrosByZona

SpecParametros == Init /\ [][NextParametros]_vars


(***************************************************************************)
(* C30: delete_parametros is a soft delete.  It never removes a record: a  *)
(* successful delete leaves every document in place and only sets the      *)
(* status of its target to "inativo".  A record with that status is not    *)
(* returned by get_parametros_by_terreno_id, get_all_parametros, the       *)
(* municipality search or the zone search, and count_parametros does not   *)
(* count it.                                                               *)
(***************************************************************************)
Armazenado(d) ==
  \E i \in DOMAIN param_urb_terrenos : param_urb_terrenos[i] = d

SoAtivos(lista) ==
  \A k \in DOMAIN lista : Armazenado(lista[k]) /\ lista[k].status = "ativo"

ConsultasDeLista ==
  {"get_all_parametros", "search_parametros_by_municipio", "get_parametros_by_zona"}

C30_ConsultasSoDevolvemAtivos ==
  /\ retorno.op \in ConsultasDeLista => SoAtivos(retorno.valor)
  /\ retorno.op = "get_parametros_by_terreno_id" => SoAtivos(retorno.valor)
  /\ retorno.op = "count_parametros" =>
       retorno.valor =
         Cardinality({i \in DOMAIN param_urb_terrenos :
                        param_urb_terrenos[i].status = "ativo"})

C30_DeleteSoMarcaInativo ==
  /\ Len(param_urb_terrenos') >= Len(param_urb_terrenos)
  /\ \A i \in DOMAIN param_urb_terrenos :
       param_urb_terrenos'[i].id = param_urb_terrenos[i].id
  /\ retorno'.op = "delete_parametros" =>
       /\ Len(param_urb_terrenos') = Len(param_urb_terrenos)
       /\ \A i \in DOMAIN param_urb_terrenos :
            IF param_urb_terrenos[i].id = retorno'.args.id
            THEN /\ retorno'.valor
                 /\ param_urb_terrenos'[i] =
                      [param_urb_terrenos[i] EXCEPT !.status = "inativo"]
            ELSE param_urb_terrenos'[i] = param_urb_terrenos[i]
       /\ retorno'.valor =>
            \E i \in DOMAIN param_urb_terrenos :
              param_urb_terrenos[i].id = retorno'.args.id

C30_SoftDelete ==
  /\ []C30_ConsultasSoDevolvemAtivos
  /\ [][C30_DeleteSoMarcaInativo]_vars

(* A list query answers with an active record while a deleted one is       *)
(* still stored; in this specification only delete_parametros writes       *)
(* "inativo".                                                              *)
C30_Witness ==
  /\ retorno.op = "get_all_parametros"
  /\ retorno.valor /= <<>>
  /\ \E i \in DOMAIN param_urb_terrenos :
       param_urb_terrenos[i].status = "inativo"


(***************************************************************************)
(* Project codes (utils/codigo_projeto.py) and the creation of projects    *)
(* (repositories/projetos_repo.py).  gerar_codigo_projeto draws a code at  *)
(* random; the model draws it from two codes.  A request advances from one *)
(* await to the next: the existence check and the insert are answered by   *)
(* the database at some later step, with other requests in between.        *)
(***************************************************************************)
max_tentativas == 100

Codigos == {"ABC1234", "XYZ9876"}

(* find_one({"cod_projeto": codigo}) on the collection of parcels,         *)
(* "formulario_terrenos_projetos"; an exception of the database is caught  *)
(* and answered with True.                                                 *)
codigo_projeto_existe_ErroComoLivre(colecao_terrenos, codigo, erro) ==
  IF erro THEN FALSE
  ELSE \E i \in DOMAIN colecao_terrenos :
         colecao_terrenos[i].cod_projeto = Some(codigo)

codigo_projeto_existe(colecao_terrenos, codigo, erro) ==
  IF erro THEN TRUE
  ELSE \E i \in DOMAIN colecao_terrenos :
         colecao_terrenos[i].cod_projeto = Some(codigo)

(* How the check ended, for the record kept in the request's frame.        *)
Verificacao(colecao_terrenos, codigo, erro) ==
  IF erro THEN "erro"
  ELSE IF \E i \in DOMAIN colecao_terrenos :
            colecao_terrenos[i].cod_projeto = Some(codigo)
       THEN "positiva"
       ELSE "negativa"

(* create_projeto up to the first await: ProjetoCreate has no cod_projeto, *)
(* so a code is always generated; tentativas starts at 0, a first          *)
(* candidate is drawn and its existence check is awaited.                  *)
CreateProjeto(c) ==
  /\ criadores[c].pc = "ocioso"
  /\ \E codigo \in Codigos :
       criadores' = [criadores EXCEPT ![c] =
                       [pc |-> "verificando", tentativas |-> 0,
                        codigo |-> Some(codigo), verificacao |-> "nenhuma"]]
  /\ UNCHANGED <<varsAvaliacao, terrenos, param_urb_terrenos, projetos, retorno>>

(* The existence check is answered.  Positive: tentativas += 1 and, while  *)
(* tentativas < max_tentativas, another candidate is drawn and checked;    *)
(* otherwise the exception is raised.  Negative: the code is returned and  *)
(* create_projeto awaits insert_one.                                       *)
CodigoProjetoExiste(c) ==
  /\ criadores[c].pc = "verificando"
  /\ \E erro \in BOOLEAN, proximo \in Codigos :
       LET codigo == criadores[c].codigo[1]
           verificacao == Verificacao(terrenos, codigo, erro)
           tentativas == criadores[c].tentativas + 1
       IN  IF codigo_projeto_existe(terrenos, codigo, erro)
           THEN IF tentativas < max_tentativas
                THEN criadores' = [criadores EXCEPT ![c] =
                       [pc |-> "verificando", tentativas |-> tentativas,
                        codigo |-> Some(proximo), verificacao |-> verificacao]]
                ELSE criadores' = [criadores EXCEPT ![c] =
                       [pc |-> "falhou", tentativas |-> tentativas,
                        codigo |-> None, verificacao |-> verificacao]]
           ELSE criadores' = [criadores EXCEPT ![c] =
                  [pc |-> "inserindo", tentativas |-> criadores[c].tentativas,
                   codigo |-> Some(codigo), verificacao |-> verificacao]]
  /\ UNCHANGED <<varsAvaliacao, terrenos, param_urb_terrenos, projetos, retorno>>

(* insert_one into the collection "projetos"; the project is read back    *)
(* and returned.                                                           *)
InsertOne(c) ==
  /\ criadores[c].pc = "inserindo"
  /\ projetos' = Append(projetos,
                   [id |-> Len(projetos) + 1,
                    cod_projeto |-> criadores[c].codigo[1]])
  /\ criadores' = [criadores EXCEPT ![c].pc = "criado"]
  /\ UNCHANGED <<varsAvaliacao, terrenos, param_urb_terrenos, retorno>>

NextProjetos ==
  \E c \in Criadores : CreateProjeto(c) \/ CodigoProjetoExiste(c) \/ InsertOne(c)

SpecProjetos == Init /\ [][NextProjetos]_vars


(***************************************************************************)
(* C28: after any sequence and any interleaving of project creations that  *)
(* take their code from gerar_codigo_projeto_unico, no two stored projects *)
(* share a cod_projeto.                                                    *)
(***************************************************************************)
C28_CodigosDeProjetoDistintos ==
  \A i, j \in DOMAIN projetos :
    i /= j => projetos[i].cod_projeto /= projetos[j].cod_projeto

(***************************************************************************)
(* One request generating a code while parcels, some of them holding a     *)
(* code, are created.  The database answers every find_one it is sent,     *)
(* with a document, with None or with an error, so an awaited existence    *)
(* check is eventually answered: weak fairness of that step.               *)
(***************************************************************************)
Geradores == {"p"}

NextGerador ==
  \/ CreateTerreno
  \/ \E c \in Geradores : CreateProjeto(c) \/ CodigoProjetoExiste(c) \/ InsertOne(c)

SpecGerador ==
  /\ Init
  /\ [][NextGerador]_vars
  /\ \A c \in Geradores : WF_vars(CodigoProjetoExiste(c))

(***************************************************************************)
(* C29: gerar_codigo_projeto_unico terminates after at most 100 existence  *)
(* checks.  It returns the first candidate whose check is negative, and    *)
(* raises after 100 consecutive positive checks; a check that failed with  *)
(* a database error counts as positive, so the code it checked is never    *)
(* returned.                                                               *)
(***************************************************************************)
C29_NoMaximoCemVerificacoes ==
  \A c \in Geradores :
    /\ criadores[c].tentativas <= max_tentativas
    /\ criadores[c].pc = "verificando" => criadores[c].tentativas < max_tentativas
    /\ criadores[c].pc = "falhou" =>
         /\ criadores[c].tentativas = max_tentativas
         /\ criadores[c].verificacao \in {"positiva", "erro"}
    /\ criadores[c].pc \in {"inserindo", "criado"} =>
         criadores[c].verificacao = "negativa"

C29_CadaVerificacao ==
  \A c \in Geradores :
    (criadores[c].pc = "verificando" /\ criadores'[c] /= criadores[c]) =>
      IF criadores'[c].verificacao = "negativa"
      THEN /\ criadores'[c].pc = "inserindo"
           /\ criadores'[c].codigo = criadores[c].codigo
           /\ ~ \E i \in DOMAIN terrenos :
                  terrenos[i].cod_projeto = criadores[c].codigo
      ELSE /\ criadores'[c].tentativas = criadores[c].tentativas + 1
           /\ criadores'[c].pc =
                IF criadores'[c].tentativas < max_tentativas
                THEN "verificando" ELSE "falhou"

C29_Termina ==
  \A c \in Geradores :
    (criadores[c].pc = "verificando")
      ~> (criadores[c].pc \in {"inserindo", "criado", "falhou"})

C29_GeradorTerminaEmCemVerificacoes ==
  /\ []C29_NoMaximoCemVerificacoes
  /\ [][C29_CadaVerificacao]_vars
  /\ C29_Termina

(* The hundredth check was positive and the exception was raised, with a   *)
(* parcel holding a code in store.                                         *)
C29_Witness ==
  /\ criadores["p"].pc = "falhou"
  /\ \E i \in DOMAIN terrenos : terrenos[i].cod_projeto /= None

====
